---- MODULE Spec2Model ----
(***************************************************************************)
(* NeoBuddy admin panel: the client-side reconciliation logic.             *)
(*                                                                         *)
(*  - the occupancy updater (AdminPanel.tsx, sessionSubscription handler   *)
(*    and updateRoomUserCount): participation-table events are turned into *)
(*    +1/-1 deltas, each a read-modify-write of rooms.current_users;       *)
(*  - the rooms list reconciler (AdminPanel.tsx, roomSubscription handler, *)
(*    loadRooms, autoRefreshInterval): the local list is replaced by full  *)
(*    fetches and folded over insert/update/delete feed events;            *)
(*  - the withdrawals and promo-code reconcilers (PayoutManager.tsx,       *)
(*    RoomList.jsx), which fold feed events the same way.                  *)
(*                                                                         *)
(* The specifications share the variables: SpecOcc (occupancy updater),    *)
(* SpecRooms (rooms list against the store; SpecRoomsFair adds the         *)
(* fairness of the timer and of fetch completion), SpecFold (the three     *)
(* event folds applied to arbitrary events), SpecWrites (room edit and     *)
(* delete calls), SpecPayout (the payout screen's pay and reject flows),   *)
(* SpecCard and SpecPromoCard (the status badges of a room card and of a   *)
(* promo-code card), SpecMessage (the status-message service), SpecEditor  *)
(* (the status-message editor), SpecInline (the inline edit of a room as   *)
(* AdminPanel wires it), SpecAdd (the add-room form), SpecSeq (the         *)
(* occupancy updater with events handled one at a time and no failures),   *)
(* SpecPanels (several mounted panels on one session feed) and SpecList    *)
(* (every writer of the rooms list, interleaved).                          *)
(***************************************************************************)
EXTENDS Integers, Sequences, FiniteSets, Bags, TLC

VARIABLES
    user_sessions,   \* participation table: record id -> row, or NoRow
    current_users,   \* rooms.current_users in the store, per room id
    sessFeed,        \* undelivered user_sessions change events, oldest first
    tasks,           \* bag of sessionSubscription handlers suspended in updateRoomUserCount
    sessOps,         \* number of participation-table changes made so far
    store,           \* rooms table: room id -> row, or NoRow
    created,         \* room ids that were ever inserted (ids are never reused)
    roomFeed,        \* undelivered rooms change events, oldest first
    online,          \* whether remote calls of loadRooms currently succeed
    fetchSent,       \* loadRooms queries sent and not yet answered
    fetchReplies,    \* bag of loadRooms answers not yet applied locally
    rooms,           \* React state `rooms` of AdminPanel
    isLoading,       \* React state `isLoading` of AdminPanel
    error,           \* React state `error` of AdminPanel (TRUE: a message is set)
    roomOps,         \* number of rooms-table changes made so far
    withdrawals,     \* React state `withdrawals` of PayoutManager
    promoCodes,      \* React state `promoCodes` of PromoCodeManager
    roomCalls,       \* bag of roomService.updateRoom / deleteRoom calls the store has not finished
    roomReplies,     \* bag of their answers, not yet seen by handleEditRoom / handleDeleteRoom
    wstore,          \* influencer_withdrawals table: request id -> row
    wFeed,           \* undelivered influencer_withdrawals change events, oldest first
    selectedWithdrawal, \* React state `selectedWithdrawal` of PayoutManager, or NoRow
    showPayModal,    \* React state `showPayModal`
    showRejectModal, \* React state `showRejectModal`
    notes,           \* React state `notes`: the text of the note, a sequence of characters
    payCalls,        \* bag of payoutService requests the store has not executed
    payReplies,      \* bag of their answers, not yet seen by the confirm handlers
    payOps,          \* number of changes other clients made to influencer_withdrawals
    now,             \* the wall clock in local time: calendar date, hour, minute
    badgeRoom,       \* the room a RoomList card is rendered for
    badge,           \* the label getStatusBadge returned at the last render of the card
    promoShown,      \* the promo code a PromoCodeManager card is rendered for
    promoBadge,      \* the label of that card at its last render
    status_message,  \* status_message table: the set of its rows
    msgTasks,        \* bag of statusMessageService calls in progress
    msgCalls,        \* number of statusMessageService calls started so far
    statusMessage,   \* React state `statusMessage` of StatusMessageManager: the text shown
    originalMessage, \* React state `originalMessage`
    hasUnsavedChanges, \* React state `hasUnsavedChanges`
    msgIsLoading,    \* React state `isLoading` of StatusMessageManager
    edCalls,         \* bag of statusMessageService calls of the screen, not yet executed
    edReplies,       \* bag of their results, not yet seen by the screen
    edFeed,          \* undelivered status_message change events, oldest first
    editingRoom,     \* React state `editingRoom` of RoomList: a room id, or NoRoom for null
    editFormData,    \* React state `editFormData` of RoomList
    editIsSubmitting, \* React state `isSubmitting` of RoomList
    editSubmitLock,  \* React state `submitLock` of RoomList
    formData,        \* React state `formData` of AddRoomForm
    addIsSubmitting, \* React state `isSubmitting` of AddRoomForm
    addSubmitLock,   \* React state `submitLock` of AddRoomForm
    last             \* history: the last step taken, its input and what it saw

occVars == <<user_sessions, current_users, sessFeed, tasks, sessOps>>
roomVars == <<store, created, roomFeed, online, fetchSent, fetchReplies, rooms,
              isLoading, error, roomOps>>
foldVars == <<withdrawals, promoCodes>>
writeVars == <<roomCalls, roomReplies>>
payVars == <<wstore, wFeed, selectedWithdrawal, showPayModal, showRejectModal, notes,
             payCalls, payReplies, payOps>>
badgeVars == <<now, badgeRoom, badge, promoShown, promoBadge>>
msgVars == <<status_message, msgTasks, msgCalls>>
editVars == <<statusMessage, originalMessage, hasUnsavedChanges, msgIsLoading, edCalls,
              edReplies, edFeed>>
inlineVars == <<editingRoom, editFormData, editIsSubmitting, editSubmitLock>>
formVars == <<formData, addIsSubmitting, addSubmitLock>>
uiVars == <<editVars, inlineVars, formVars>>
extVars == <<writeVars, payVars, badgeVars, msgVars, uiVars>>
nonWriteVars == <<payVars, badgeVars, msgVars, uiVars>>
nonPayVars == <<writeVars, badgeVars, msgVars, uiVars>>
nonBadgeVars == <<writeVars, payVars, msgVars, uiVars>>
nonMsgVars == <<writeVars, payVars, badgeVars, uiVars>>
nonEditVars == <<writeVars, payVars, badgeVars, msgTasks, msgCalls, inlineVars, formVars>>
nonInlineVars == <<payVars, badgeVars, msgVars, editVars, formVars>>
nonFormVars == <<payVars, badgeVars, msgVars, editVars, inlineVars>>
vars == <<occVars, roomVars, foldVars, extVars, last>>

(***************************************************************************)
(* Bounds of the model.                                                    *)
(***************************************************************************)
NumRooms == 2
NumSessions == 1
MaxSessOps == 2
MaxSessFeed == 1
MaxTasks == 2
MaxInitUsers == 1
MaxRoomOps == 2
MaxRoomFeed == 1
MaxFetches == 1

RoomIds == 1..NumRooms
SessionIds == 1..NumSessions

\* A missing snapshot / missing row (JavaScript null or undefined).
NoRow == [id |-> 0]
\* A participation record that carries no room_id.
NoRoom == 0
\* rewards_left values: below zero, zero, and the spec's example value 5.
Rewards == {-1, 0, 5}

SeqToSet(s) == {s[i] : i \in DOMAIN s}
Max(a, b) == IF a >= b THEN a ELSE b

(***************************************************************************)
(* Occupancy updater.                                                      *)
(***************************************************************************)
\* interface Session, restricted to the fields the handler reads.
SessionRow(sid, rid, rl) == [id |-> sid, room_id |-> rid, rewards_left |-> rl]

\* A postgres_changes payload.
Payload(type, new, old) == [eventType |-> type, new |-> new, old |-> old]

\* `(room.current_users || 0)`: a falsy counter reads as 0. The column is
\* INT DEFAULT 0 and addRoom writes 0, so the falsy value stored is 0.
OrZero(v) == IF v = 0 THEN 0 ELSE v

\* Variant without the clamp.
NewCountUnclamped(cur, change) == OrZero(cur) + change

\* const newCount = Math.max(0, (room.current_users || 0) + change)
NewCount(cur, change) == Max(0, OrZero(cur) + change)

\* One call updateRoomUserCount(roomId, change).
Call(rid, change) == [roomId |-> rid, change |-> change]

\* Variant that increments for every inserted record.
InsertCallsAlways(p, roomId) ==
    IF p.eventType = "INSERT" THEN <<Call(roomId, 1)>> ELSE <<>>

\* The INSERT branch of the handler: the calls it makes.
InsertCalls(p, roomId) ==
    IF p.eventType = "INSERT" /\ p.new.rewards_left > 0
    THEN <<Call(roomId, 1)>> ELSE <<>>

\* The UPDATE branch; UpdateReturns is TRUE when the handler returns inside it.
UpdateReturns(p) == p.eventType = "UPDATE" /\ p.old.room_id # p.new.room_id
\* Variant that tests rewards_left against 0 with equality.
UpdateCallsZeroOnly(p, roomId) ==
    IF p.eventType = "UPDATE" /\ ~UpdateReturns(p)
    THEN (IF p.old.rewards_left > 0 /\ p.new.rewards_left = 0
          THEN <<Call(roomId, -1)>> ELSE <<>>)
         \o
         (IF p.old.rewards_left = 0 /\ p.new.rewards_left > 0
          THEN <<Call(roomId, 1)>> ELSE <<>>)
    ELSE <<>>

UpdateCalls(p, roomId) ==
    IF p.eventType = "UPDATE" /\ ~UpdateReturns(p)
    THEN (IF p.old.rewards_left > 0 /\ p.new.rewards_left <= 0
          THEN <<Call(roomId, -1)>> ELSE <<>>)
         \o
         (IF p.old.rewards_left <= 0 /\ p.new.rewards_left > 0
          THEN <<Call(roomId, 1)>> ELSE <<>>)
    ELSE <<>>

\* The DELETE branch, reached unless the UPDATE branch returned.
DeleteCalls(p, roomId) ==
    IF p.eventType = "DELETE" /\ p.old.rewards_left > 0
    THEN <<Call(roomId, -1)>> ELSE <<>>

\* Variant that reads payload.new alone.
PayloadSessionNewOnly(p) == p.new

\* const session = payload.new || payload.old
PayloadSession(p) == IF p.new # NoRow THEN p.new ELSE p.old

\* The calls of updateRoomUserCount one run of the handler makes, in order.
SessionCalls(p) ==
    LET session == PayloadSession(p) IN
    IF session = NoRow \/ session.room_id = NoRoom
    THEN <<>>
    ELSE InsertCalls(p, session.room_id)
         \o UpdateCalls(p, session.room_id)
         \o (IF UpdateReturns(p) THEN <<>> ELSE DeleteCalls(p, session.room_id))

\* A handler suspended in updateRoomUserCount: at the read or at the write.
Task(calls, pc, read, newCount) ==
    [calls |-> calls, pc |-> pc, read |-> read, newCount |-> newCount]

\* `last` after a step whose input no property refers to.
NoLast == [op |-> "none"]

\* ---- the participation table changes (users joining, spending, leaving) ----
SessInsert(s, r, w) ==
    /\ user_sessions[s] = NoRow
    /\ sessOps < MaxSessOps
    /\ Len(sessFeed) < MaxSessFeed
    /\ user_sessions' = [user_sessions EXCEPT ![s] = SessionRow(s, r, w)]
    /\ sessFeed' = Append(sessFeed, Payload("INSERT", SessionRow(s, r, w), NoRow))
    /\ sessOps' = sessOps + 1
    /\ last' = NoLast
    /\ UNCHANGED <<current_users, tasks, roomVars, foldVars, extVars>>

SessUpdate(s, r, w) ==
    /\ user_sessions[s] # NoRow
    /\ sessOps < MaxSessOps
    /\ Len(sessFeed) < MaxSessFeed
    /\ user_sessions' = [user_sessions EXCEPT ![s] = SessionRow(s, r, w)]
    /\ sessFeed' = Append(sessFeed, Payload("UPDATE", SessionRow(s, r, w), user_sessions[s]))
    /\ sessOps' = sessOps + 1
    /\ last' = NoLast
    /\ UNCHANGED <<current_users, tasks, roomVars, foldVars, extVars>>

SessDelete(s) ==
    /\ user_sessions[s] # NoRow
    /\ sessOps < MaxSessOps
    /\ Len(sessFeed) < MaxSessFeed
    /\ user_sessions' = [user_sessions EXCEPT ![s] = NoRow]
    /\ sessFeed' = Append(sessFeed, Payload("DELETE", NoRow, user_sessions[s]))
    /\ sessOps' = sessOps + 1
    /\ last' = NoLast
    /\ UNCHANGED <<current_users, tasks, roomVars, foldVars, extVars>>

\* ---- sessionSubscription handler: from delivery to its first await ----
SessionEvent ==
    /\ sessFeed # <<>>
    /\ LET p == Head(sessFeed)
           calls == SessionCalls(p)
       IN /\ sessFeed' = Tail(sessFeed)
          /\ IF calls = <<>>
             THEN tasks' = tasks
             ELSE /\ BagCardinality(tasks) < MaxTasks
                  /\ tasks' = tasks (+) SetToBag({Task(calls, "read", 0, 0)})
          /\ last' = [op |-> "SessionEvent", payload |-> p, calls |-> calls]
    /\ UNCHANGED <<user_sessions, current_users, sessOps, roomVars, foldVars, extVars>>

\* What the handler does after updateRoomUserCount has returned: the next
\* awaited call, or the end of the handler.
AfterCall(t) ==
    IF Len(t.calls) > 1
    THEN SetToBag({Task(Tail(t.calls), "read", 0, 0)})
    ELSE EmptyBag

\* Variant that asks again after a failed read.
UpdateReadRetry(t, ok) ==
    /\ BagIn(t, tasks)
    /\ t.pc = "read"
    /\ LET c == Head(t.calls) IN
       /\ tasks' = IF ok
                   THEN (tasks (-) SetToBag({t}))
                        (+) SetToBag({Task(t.calls, "write", current_users[c.roomId],
                                           NewCount(current_users[c.roomId], c.change))})
                   ELSE tasks
       /\ last' = [op |-> "UpdateRead", ok |-> ok, call |-> c,
                   read |-> current_users[c.roomId]]
    /\ UNCHANGED <<user_sessions, current_users, sessFeed, sessOps, roomVars, foldVars, extVars>>

\* ---- updateRoomUserCount: the select('*').single() completes ----
UpdateRead(t, ok) ==
    /\ BagIn(t, tasks)
    /\ t.pc = "read"
    /\ LET c == Head(t.calls) IN
       IF ok
       THEN /\ tasks' = (tasks (-) SetToBag({t}))
                        (+) SetToBag({Task(t.calls, "write", current_users[c.roomId],
                                           NewCount(current_users[c.roomId], c.change))})
            /\ last' = [op |-> "UpdateRead", ok |-> TRUE, call |-> c,
                        read |-> current_users[c.roomId]]
       ELSE \* fetchError is thrown, caught and logged; the handler goes on
            /\ tasks' = (tasks (-) SetToBag({t})) (+) AfterCall(t)
            /\ last' = [op |-> "UpdateRead", ok |-> FALSE, call |-> c,
                        read |-> current_users[c.roomId]]
    /\ UNCHANGED <<user_sessions, current_users, sessFeed, sessOps, roomVars, foldVars, extVars>>

\* Variant that adds the delta to the counter as it is at the write.
UpdateWriteAtomic(t, ok) ==
    /\ BagIn(t, tasks)
    /\ t.pc = "write"
    /\ LET c == Head(t.calls)
           v == NewCount(current_users[c.roomId], c.change)
       IN /\ current_users' = IF ok THEN [current_users EXCEPT ![c.roomId] = v]
                              ELSE current_users
          /\ tasks' = (tasks (-) SetToBag({t})) (+) AfterCall(t)
          /\ last' = [op |-> "UpdateWrite", ok |-> ok, call |-> c, read |-> t.read,
                      newCount |-> v, before |-> current_users[c.roomId]]
    /\ UNCHANGED <<user_sessions, sessFeed, sessOps, roomVars, foldVars, extVars>>

\* ---- updateRoomUserCount: the update({current_users: newCount}) completes ----
UpdateWrite(t, ok) ==
    /\ BagIn(t, tasks)
    /\ t.pc = "write"
    /\ LET c == Head(t.calls) IN
       /\ current_users' = IF ok THEN [current_users EXCEPT ![c.roomId] = t.newCount]
                           ELSE current_users
       /\ tasks' = (tasks (-) SetToBag({t})) (+) AfterCall(t)
       /\ last' = [op |-> "UpdateWrite", ok |-> ok, call |-> c, read |-> t.read,
                   newCount |-> t.newCount, before |-> current_users[c.roomId]]
    /\ UNCHANGED <<user_sessions, sessFeed, sessOps, roomVars, foldVars, extVars>>

\* The occupancy side before any participation event.
InitOcc ==
    /\ user_sessions = [s \in SessionIds |-> NoRow]
    /\ sessFeed = <<>>
    /\ tasks = EmptyBag
    /\ sessOps = 0

NextOcc ==
    \/ \E s \in SessionIds, r \in RoomIds \cup {NoRoom}, w \in Rewards : SessInsert(s, r, w)
    \/ \E s \in SessionIds, r \in RoomIds \cup {NoRoom}, w \in Rewards : SessUpdate(s, r, w)
    \/ \E s \in SessionIds : SessDelete(s)
    \/ SessionEvent
    \/ \E t \in BagToSet(tasks), ok \in BOOLEAN : UpdateRead(t, ok)
    \/ \E t \in BagToSet(tasks), ok \in BOOLEAN : UpdateWrite(t, ok)

(***************************************************************************)
(* Rooms list reconciler.                                                  *)
(***************************************************************************)
\* todayStr: the current UTC calendar date (one day is modelled).
TodayStr == 1
Dates == {TodayStr, 2}
Names == {"a", "b"}

\* interface Room, restricted to the fields that tell snapshots apart.
RoomRow(rid, date, name) == [id |-> rid, session_date |-> date, name |-> name]
RoomRows == {RoomRow(i, d, n) : i \in RoomIds, d \in Dates, n \in Names}

Ids(list) == {list[i].id : i \in DOMAIN list}

\* Variants of the INSERT branch: without the duplicate check; appending.
RoomInsertNoDedup(prev, newRoom) ==
    IF newRoom.session_date # TodayStr THEN prev ELSE <<newRoom>> \o prev
RoomInsertAppend(prev, newRoom) ==
    IF newRoom.session_date # TodayStr
    THEN prev
    ELSE IF \E i \in DOMAIN prev : prev[i].id = newRoom.id
         THEN prev
         ELSE prev \o <<newRoom>>

\* INSERT: setRooms(prev => ...)
RoomInsert(prev, newRoom) ==
    IF newRoom.session_date # TodayStr
    THEN prev
    ELSE IF \E i \in DOMAIN prev : prev[i].id = newRoom.id
         THEN prev
         ELSE <<newRoom>> \o prev

\* Variant of the UPDATE branch that takes in a record not yet listed when
\* its new date is today.
RoomUpdateAddsToday(prev, updatedRoom) ==
    IF \E i \in DOMAIN prev : prev[i].id = updatedRoom.id
    THEN [i \in DOMAIN prev |->
             IF prev[i].id = updatedRoom.id THEN updatedRoom ELSE prev[i]]
    ELSE IF updatedRoom.session_date = TodayStr
         THEN <<updatedRoom>> \o prev
         ELSE prev

\* Variant of the UPDATE branch that ignores every snapshot not for today.
RoomUpdateTodayOnly(prev, updatedRoom) ==
    IF updatedRoom.session_date # TodayStr
    THEN prev
    ELSE [i \in DOMAIN prev |->
             IF prev[i].id = updatedRoom.id THEN updatedRoom ELSE prev[i]]

\* UPDATE: setRooms(prev => ...)
RoomUpdate(prev, updatedRoom) ==
    IF ~(\E i \in DOMAIN prev : prev[i].id = updatedRoom.id)
       /\ updatedRoom.session_date # TodayStr
    THEN prev
    ELSE [i \in DOMAIN prev |->
             IF prev[i].id = updatedRoom.id THEN updatedRoom ELSE prev[i]]

\* DELETE: setRooms(prev => prev.filter(room => room.id !== deletedRoom.id))
RoomDelete(prev, deletedRoom) == SelectSeq(prev, LAMBDA room : room.id # deletedRoom.id)

\* The roomSubscription handler as a function of the list and the payload.
RoomFold(prev, p) ==
    CASE p.eventType = "INSERT" -> RoomInsert(prev, p.new)
      [] p.eventType = "UPDATE" -> RoomUpdate(prev, p.new)
      [] p.eventType = "DELETE" -> RoomDelete(prev, p.old)
      [] OTHER -> prev

\* .eq('session_date', todayStr).order('created_at', {ascending: false}):
\* `order` lists the ids in creation order, oldest first.
RECURSIVE TodayRooms(_, _)
TodayRooms(st, order) ==
    IF order = <<>>
    THEN <<>>
    ELSE LET rid == order[Len(order)]
             rest == TodayRooms(st, SubSeq(order, 1, Len(order) - 1))
         IN IF st[rid] # NoRow /\ st[rid].session_date = TodayStr
            THEN <<st[rid]>> \o rest
            ELSE rest

\* ---- the rooms table changes (this operator or any other client) ----
StoreInsert(rid, date, name) ==
    /\ rid \notin SeqToSet(created)
    /\ roomOps < MaxRoomOps
    /\ Len(roomFeed) < MaxRoomFeed
    /\ store' = [store EXCEPT ![rid] = RoomRow(rid, date, name)]
    /\ created' = Append(created, rid)
    /\ roomFeed' = Append(roomFeed, Payload("INSERT", RoomRow(rid, date, name), NoRow))
    /\ roomOps' = roomOps + 1
    /\ last' = NoLast
    /\ UNCHANGED <<online, fetchSent, fetchReplies, rooms, isLoading, error, occVars,
                   foldVars, extVars>>

StoreUpdate(rid, date, name) ==
    /\ store[rid] # NoRow
    /\ roomOps < MaxRoomOps
    /\ Len(roomFeed) < MaxRoomFeed
    /\ store' = [store EXCEPT ![rid] = RoomRow(rid, date, name)]
    /\ roomFeed' = Append(roomFeed, Payload("UPDATE", RoomRow(rid, date, name), store[rid]))
    /\ roomOps' = roomOps + 1
    /\ last' = NoLast
    /\ UNCHANGED <<created, online, fetchSent, fetchReplies, rooms, isLoading, error,
                   occVars, foldVars, extVars>>

StoreDelete(rid) ==
    /\ store[rid] # NoRow
    /\ roomOps < MaxRoomOps
    /\ Len(roomFeed) < MaxRoomFeed
    /\ store' = [store EXCEPT ![rid] = NoRow]
    /\ roomFeed' = Append(roomFeed, Payload("DELETE", NoRow, store[rid]))
    /\ roomOps' = roomOps + 1
    /\ last' = NoLast
    /\ UNCHANGED <<created, online, fetchSent, fetchReplies, rooms, isLoading, error,
                   occVars, foldVars, extVars>>

\* ---- the channel: an event is delivered to the handler, or is lost ----
RoomEvent ==
    /\ roomFeed # <<>>
    /\ roomFeed' = Tail(roomFeed)
    /\ rooms' = RoomFold(rooms, Head(roomFeed))
    /\ last' = NoLast
    /\ UNCHANGED <<store, created, online, fetchSent, fetchReplies, isLoading, error,
                   roomOps, occVars, foldVars, extVars>>

RoomEventLost ==
    /\ roomFeed # <<>>
    /\ roomFeed' = Tail(roomFeed)
    /\ last' = NoLast
    /\ UNCHANGED <<store, created, online, fetchSent, fetchReplies, rooms, isLoading,
                   error, roomOps, occVars, foldVars, extVars>>

\* ---- the remote becomes unreachable, or reachable again ----
Connectivity ==
    /\ online' = ~online
    /\ last' = NoLast
    /\ UNCHANGED <<store, created, roomFeed, fetchSent, fetchReplies, rooms, isLoading,
                   error, roomOps, occVars, foldVars, extVars>>

\* ---- loadRooms up to its await: the query is sent ----
LoadRoomsStart ==
    /\ fetchSent + BagCardinality(fetchReplies) < MaxFetches
    /\ isLoading' = TRUE
    /\ error' = FALSE
    /\ fetchSent' = fetchSent + 1
    /\ UNCHANGED <<store, created, roomFeed, online, fetchReplies, rooms, roomOps,
                   occVars, foldVars, extVars>>

\* setInterval(() => loadRooms(), 30000)
AutoRefresh ==
    /\ LoadRoomsStart
    /\ last' = NoLast

\* <button onClick={loadRooms} disabled={isLoading}>
ManualRefresh ==
    /\ ~isLoading
    /\ LoadRoomsStart
    /\ last' = NoLast

\* ---- the store answers a loadRooms query (or the call fails) ----
Reply(ok, data) == [ok |-> ok, data |-> data]

FetchAnswer ==
    /\ fetchSent > 0
    /\ fetchSent' = fetchSent - 1
    /\ fetchReplies' = fetchReplies (+) SetToBag({
           IF online THEN Reply(TRUE, TodayRooms(store, created))
                     ELSE Reply(FALSE, <<>>)})
    /\ last' = NoLast
    /\ UNCHANGED <<store, created, roomFeed, online, rooms, isLoading, error, roomOps,
                   occVars, foldVars, extVars>>

\* Variant that keeps a non-empty list.
LoadRoomsMerge(prev, r) == IF prev = <<>> THEN r.data ELSE prev

\* setRooms(data || []): the state becomes the answer's rows.
LoadRoomsResult(prev, r) == r.data

\* ---- loadRooms after its await: setRooms(data || []) or the catch block ----

FetchApply(r) ==
    /\ BagIn(r, fetchReplies)
    /\ fetchReplies' = fetchReplies (-) SetToBag({r})
    /\ IF r.ok
       THEN /\ rooms' = LoadRoomsResult(rooms, r)
            /\ error' = error
       ELSE /\ rooms' = rooms
            /\ error' = TRUE
    /\ isLoading' = FALSE
    /\ last' = [op |-> "FetchApply", reply |-> r, before |-> rooms]
    /\ UNCHANGED <<store, created, roomFeed, online, fetchSent, roomOps, occVars,
                   foldVars, extVars>>

\* After mount: useState([]), useState(true), useState(null), and the first
\* loadRooms() of the effect already sent.
InitRooms ==
    /\ store = [r \in RoomIds |-> NoRow]
    /\ created = <<>>
    /\ roomFeed = <<>>
    /\ online = TRUE
    /\ fetchSent = 1
    /\ fetchReplies = EmptyBag
    /\ rooms = <<>>
    /\ isLoading = TRUE
    /\ error = FALSE
    /\ roomOps = 0

NextRooms ==
    \/ \E rid \in RoomIds, d \in Dates, n \in Names : StoreInsert(rid, d, n)
    \/ \E rid \in RoomIds, d \in Dates, n \in Names : StoreUpdate(rid, d, n)
    \/ \E rid \in RoomIds : StoreDelete(rid)
    \/ RoomEvent
    \/ RoomEventLost
    \/ Connectivity
    \/ AutoRefresh
    \/ ManualRefresh
    \/ FetchAnswer
    \/ \E r \in BagToSet(fetchReplies) : FetchApply(r)

\* The status_message table is empty and no call of its service has started.
NoMessageCall ==
    /\ status_message = {}
    /\ msgTasks = EmptyBag
    /\ msgCalls = 0

\* StatusMessageManager, the inline edit of RoomList and AddRoomForm are not
\* in use.
UiIdle ==
    /\ statusMessage = <<>>
    /\ originalMessage = <<>>
    /\ hasUnsavedChanges = FALSE
    /\ msgIsLoading = FALSE
    /\ edCalls = EmptyBag
    /\ edReplies = EmptyBag
    /\ edFeed = <<>>
    /\ editingRoom = NoRoom
    /\ editFormData = NoRow
    /\ editIsSubmitting = FALSE
    /\ editSubmitLock = FALSE
    /\ formData = NoRow
    /\ addIsSubmitting = FALSE
    /\ addSubmitLock = FALSE

\* No card of a room or of a promo code has been rendered.
NoCardRendered ==
    /\ now = [date |-> 1, h |-> 0, m |-> 0]
    /\ badgeRoom = NoRow
    /\ badge = "none"
    /\ promoShown = NoRow
    /\ promoBadge = "none"

\* The payout screen is not in use.
PayoutUnmounted ==
    /\ wstore = <<>>
    /\ wFeed = <<>>
    /\ selectedWithdrawal = NoRow
    /\ showPayModal = FALSE
    /\ showRejectModal = FALSE
    /\ notes = <<>>
    /\ payCalls = EmptyBag
    /\ payReplies = EmptyBag
    /\ payOps = 0

\* Rooms list reconciler and event folds: the state after mount.
Init ==
    /\ InitOcc
    /\ InitRooms
    /\ current_users = [r \in RoomIds |-> 0]
    /\ withdrawals = <<>>
    /\ promoCodes = <<>>
    /\ roomCalls = EmptyBag
    /\ roomReplies = EmptyBag
    /\ PayoutUnmounted
    /\ NoCardRendered
    /\ NoMessageCall
    /\ UiIdle
    /\ last = NoLast

\* Occupancy updater: the counters start at any value >= 0.
InitCounters ==
    /\ InitOcc
    /\ InitRooms
    /\ current_users \in [RoomIds -> 0..MaxInitUsers]
    /\ withdrawals = <<>>
    /\ promoCodes = <<>>
    /\ roomCalls = EmptyBag
    /\ roomReplies = EmptyBag
    /\ PayoutUnmounted
    /\ NoCardRendered
    /\ NoMessageCall
    /\ UiIdle
    /\ last = NoLast

SpecOcc == InitCounters /\ [][NextOcc]_vars

SpecRooms == Init /\ [][NextRooms]_vars

\* The interval timer keeps firing, the store answers every query, and every
\* answer's continuation runs on the event loop.
SpecRoomsFair ==
    /\ SpecRooms
    /\ WF_vars(AutoRefresh)
    /\ WF_vars(FetchAnswer)
    /\ WF_vars(\E r \in BagToSet(fetchReplies) : FetchApply(r))

(***************************************************************************)
(* The three event folds, applied to arbitrary events.                     *)
(***************************************************************************)
\* interface WithdrawalRequest, restricted to id and status.
Statuses == {"pending", "paid"}
WithdrawalRow(wid, status) == [id |-> wid, status |-> status]
WithdrawalRows == {WithdrawalRow(i, st) : i \in RoomIds, st \in Statuses}

\* Variant without the duplicate check.
WithdrawalInsertAlways(prev, newWithdrawal) == <<newWithdrawal>> \o prev

\* withdrawalSubscription handler: INSERT, UPDATE, DELETE.
WithdrawalInsert(prev, newWithdrawal) ==
    IF \E i \in DOMAIN prev : prev[i].id = newWithdrawal.id
    THEN prev
    ELSE <<newWithdrawal>> \o prev

WithdrawalUpdate(prev, updatedWithdrawal) ==
    [i \in DOMAIN prev |->
        IF prev[i].id = updatedWithdrawal.id THEN updatedWithdrawal ELSE prev[i]]

WithdrawalDelete(prev, deletedWithdrawal) ==
    SelectSeq(prev, LAMBDA w : w.id # deletedWithdrawal.id)

WithdrawalFold(prev, p) ==
    LET afterInsert == IF p.eventType = "INSERT" THEN WithdrawalInsert(prev, p.new) ELSE prev
        afterUpdate == IF p.eventType = "UPDATE" THEN WithdrawalUpdate(afterInsert, p.new)
                       ELSE afterInsert
    IN IF p.eventType = "DELETE" THEN WithdrawalDelete(afterUpdate, p.old) ELSE afterUpdate

\* A promo code, restricted to id and total_uses.
Uses == {0, 1}
PromoRow(pid, uses) == [id |-> pid, total_uses |-> uses]
PromoRows == {PromoRow(i, u) : i \in RoomIds, u \in Uses}

\* Variant without the duplicate check.
PromoInsertAlways(prev, newPromoCode) == prev \o <<newPromoCode>>

\* promoCodeSubscription handler: INSERT, UPDATE, DELETE.
PromoInsert(prev, newPromoCode) ==
    IF \E i \in DOMAIN prev : prev[i].id = newPromoCode.id
    THEN prev
    ELSE prev \o <<newPromoCode>>

PromoUpdate(prev, updatedPromoCode) ==
    [i \in DOMAIN prev |->
        IF prev[i].id = updatedPromoCode.id THEN updatedPromoCode ELSE prev[i]]

PromoDelete(prev, deletedPromoCode) ==
    SelectSeq(prev, LAMBDA code : code.id # deletedPromoCode.id)

PromoFold(prev, p) ==
    LET afterInsert == IF p.eventType = "INSERT" THEN PromoInsert(prev, p.new) ELSE prev
        afterUpdate == IF p.eventType = "UPDATE" THEN PromoUpdate(afterInsert, p.new)
                       ELSE afterInsert
    IN IF p.eventType = "DELETE" THEN PromoDelete(afterUpdate, p.old) ELSE afterUpdate

\* Every payload the feed of a table with the given rows can carry.
Payloads(rows) ==
    {Payload("INSERT", n, NoRow) : n \in rows}
    \cup {Payload("UPDATE", pr[1], pr[2]) :
             pr \in {q \in rows \X rows : q[1].id = q[2].id}}
    \cup {Payload("DELETE", NoRow, o) : o \in rows}

\* The three components share no state: a behaviour of SpecFold exercises
\* one of them, so the lists are explored side by side, not as a product.
OnlyOneList(a, b) == a = <<>> /\ b = <<>>

FoldRoomEvent(p) ==
    /\ OnlyOneList(withdrawals, promoCodes)
    /\ Len(rooms) <= NumRooms
    /\ rooms' = RoomFold(rooms, p)
    /\ last' = [op |-> "RoomEvent", payload |-> p, before |-> rooms]
    /\ UNCHANGED <<store, created, roomFeed, online, fetchSent, fetchReplies, isLoading,
                   error, roomOps, occVars, foldVars, extVars>>

FoldWithdrawalEvent(p) ==
    /\ OnlyOneList(rooms, promoCodes)
    /\ Len(withdrawals) <= NumRooms
    /\ withdrawals' = WithdrawalFold(withdrawals, p)
    /\ last' = [op |-> "WithdrawalEvent", payload |-> p, before |-> withdrawals]
    /\ UNCHANGED <<roomVars, occVars, promoCodes, extVars>>

FoldPromoEvent(p) ==
    /\ OnlyOneList(rooms, withdrawals)
    /\ Len(promoCodes) <= NumRooms
    /\ promoCodes' = PromoFold(promoCodes, p)
    /\ last' = [op |-> "PromoEvent", payload |-> p, before |-> promoCodes]
    /\ UNCHANGED <<roomVars, occVars, withdrawals, extVars>>

NextFold ==
    \/ \E p \in Payloads(RoomRows) : FoldRoomEvent(p)
    \/ \E p \in Payloads(WithdrawalRows) : FoldWithdrawalEvent(p)
    \/ \E p \in Payloads(PromoRows) : FoldPromoEvent(p)

SpecFold == Init /\ [][NextFold]_vars

(***************************************************************************)
(* Properties of the occupancy updater (checked under SpecOcc).            *)
(***************************************************************************)
\* C1: every value updateRoomUserCount computes and writes is >= 0, so a
\* counter that starts >= 0 is never negative, whatever the interleaving of
\* events, reads and writes and whichever remote calls fail.
C1_CounterNeverNegative ==
    /\ \A r \in RoomIds : current_users[r] >= 0
    /\ \A t \in BagToSet(tasks) : t.pc = "write" => t.newCount >= 0
    /\ (last.op = "UpdateWrite" => last.newCount >= 0)

\* C1 witness: a write of a -1 delta computed from a counter read as 0 has
\* landed, and the counter is 0.
C1_ClampedWrite ==
    /\ last.op = "UpdateWrite"
    /\ last.ok
    /\ last.read + last.call.change < 0
    /\ current_users[last.call.roomId] = 0

\* C2: the write of a delta stores max(0, value read + delta), the value
\* computed from what this delta read, whatever was written to the counter
\* between its read and its write: the later write wins, the other delta is
\* lost, and nothing re-reads or retries.
C2_LastWriteWins ==
    (last.op = "UpdateWrite" /\ last.ok) =>
        current_users[last.call.roomId] = Max(0, last.read + last.call.change)

\* C2 witness: two deltas for one room both read before either wrote; both
\* have written, every event is handled, and the counter holds the later
\* write's value, which ignores the value the earlier write had stored.
C2_LostUpdate ==
    /\ last.op = "UpdateWrite"
    /\ last.ok
    /\ last.before # last.read
    /\ tasks = EmptyBag
    /\ sessFeed = <<>>
    /\ current_users[last.call.roomId] = Max(0, last.read + last.call.change)
    /\ current_users[last.call.roomId] # Max(0, last.before + last.call.change)

\* The delta the claims expect of an update event whose old and new session
\* ids are equal: -1 on active -> inactive, +1 on inactive -> active.
ExpectedUpdateDelta(old, new) ==
    IF old.rewards_left > 0 /\ new.rewards_left <= 0
    THEN <<Call(new.room_id, -1)>>
    ELSE IF old.rewards_left <= 0 /\ new.rewards_left > 0
         THEN <<Call(new.room_id, 1)>>
         ELSE <<>>

\* C3 as stated: for every update event, no delta when the old and new
\* session ids differ, otherwise exactly one -1 delta when old > 0 and
\* new <= 0, exactly one +1 delta when old <= 0 and new > 0, none otherwise.
C3_UpdateDeltaEveryEvent ==
    (last.op = "SessionEvent" /\ last.payload.eventType = "UPDATE") =>
        last.calls = IF last.payload.old.room_id # last.payload.new.room_id
                     THEN <<>>
                     ELSE ExpectedUpdateDelta(last.payload.old, last.payload.new)

\* C3 amended: for every update event whose new record carries a session
\* id, no delta when the old and new session ids differ, otherwise exactly
\* one -1 delta when old > 0 and new <= 0, exactly one +1 delta when
\* old <= 0 and new > 0, none otherwise; an update event whose new record
\* carries no session id issues no delta.
C3_UpdateDelta ==
    (last.op = "SessionEvent" /\ last.payload.eventType = "UPDATE") =>
        last.calls = IF last.payload.new.room_id = NoRoom
                        \/ last.payload.old.room_id # last.payload.new.room_id
                     THEN <<>>
                     ELSE ExpectedUpdateDelta(last.payload.old, last.payload.new)

\* C3 witness: an update event 5 -> 0 within one session was handled and
\* issued exactly one -1 delta for that session.
C3_FiveToZero ==
    /\ last.op = "SessionEvent"
    /\ last.payload.eventType = "UPDATE"
    /\ last.payload.old.rewards_left = 5
    /\ last.payload.new.rewards_left = 0
    /\ last.payload.new.room_id # NoRoom
    /\ last.calls = <<Call(last.payload.new.room_id, -1)>>

\* C4: an insert event issues exactly one +1 delta for the record's session
\* iff the new record's remaining credits are > 0; a delete event issues
\* exactly one -1 delta iff the deleted record's remaining credits were > 0;
\* an event whose record carries no session id issues no delta.
C4_InsertDeleteDelta ==
    last.op = "SessionEvent" =>
        LET p == last.payload
            rec == IF p.eventType = "DELETE" THEN p.old ELSE p.new
        IN /\ rec.room_id = NoRoom => last.calls = <<>>
           /\ (p.eventType = "INSERT" /\ rec.room_id # NoRoom) =>
                 last.calls = IF rec.rewards_left > 0
                              THEN <<Call(rec.room_id, 1)>> ELSE <<>>
           /\ (p.eventType = "DELETE" /\ rec.room_id # NoRoom) =>
                 last.calls = IF rec.rewards_left > 0
                              THEN <<Call(rec.room_id, -1)>> ELSE <<>>

\* C4 witness: the delete event of a record with credits left was handled
\* and issued exactly one -1 delta for its session.
C4_DeleteActive ==
    /\ last.op = "SessionEvent"
    /\ last.payload.eventType = "DELETE"
    /\ last.payload.old.rewards_left > 0
    /\ last.calls = <<Call(last.payload.old.room_id, -1)>>

(***************************************************************************)
(* Properties of the event folds (checked under SpecFold).                 *)
(***************************************************************************)
\* C5: insert folding is idempotent in the rooms, withdrawals and promo-code
\* reconcilers: after an insert event has been applied, applying the same
\* event again yields the same list, and an insert whose id is already in
\* the list leaves the list unchanged.
C5_InsertIdempotent ==
    /\ (last.op = "RoomEvent" /\ last.payload.eventType = "INSERT") =>
          RoomFold(rooms, last.payload) = rooms
    /\ (last.op = "WithdrawalEvent" /\ last.payload.eventType = "INSERT") =>
          WithdrawalFold(withdrawals, last.payload) = withdrawals
    /\ (last.op = "PromoEvent" /\ last.payload.eventType = "INSERT") =>
          PromoFold(promoCodes, last.payload) = promoCodes
    /\ \A n \in RoomRows :
          n.id \in Ids(rooms) => RoomFold(rooms, Payload("INSERT", n, NoRow)) = rooms
    /\ \A n \in WithdrawalRows :
          n.id \in Ids(withdrawals) =>
              WithdrawalFold(withdrawals, Payload("INSERT", n, NoRow)) = withdrawals
    /\ \A n \in PromoRows :
          n.id \in Ids(promoCodes) =>
              PromoFold(promoCodes, Payload("INSERT", n, NoRow)) = promoCodes

\* C5 witness: an insert event for a room scheduled today was applied to a
\* list that already held that id with another name, and changed nothing.
C5_DuplicateInsert ==
    /\ last.op = "RoomEvent"
    /\ last.payload.eventType = "INSERT"
    /\ last.payload.new.session_date = TodayStr
    /\ last.payload.new.id \in Ids(last.before)
    /\ last.payload.new \notin SeqToSet(last.before)
    /\ rooms = last.before

\* C7: a session update event replaces a present record in place (same
\* position, other records untouched) by the new snapshot, also when the new
\* scheduled date is not today; when no record has that id and the new date
\* is not today, the list is unchanged.
C7_UpdateInPlace ==
    (last.op = "RoomEvent" /\ last.payload.eventType = "UPDATE") =>
        LET u == last.payload.new
            b == last.before
        IN IF u.id \in Ids(b)
           THEN /\ Len(rooms) = Len(b)
                /\ \A i \in DOMAIN b :
                      rooms[i] = IF b[i].id = u.id THEN u ELSE b[i]
           ELSE u.session_date # TodayStr => rooms = b

\* C7 witness: a record in second position was replaced in place by a
\* snapshot whose scheduled date is not today.
C7_StaleRetention ==
    /\ last.op = "RoomEvent"
    /\ last.payload.eventType = "UPDATE"
    /\ last.payload.new.session_date # TodayStr
    /\ Len(last.before) = 2
    /\ last.before[2].id = last.payload.new.id
    /\ last.before[2] # last.payload.new
    /\ rooms = <<last.before[1], last.payload.new>>

\* C8: a session insert event whose scheduled date is not today leaves the
\* list unchanged; one whose date is today and whose id is not in the list
\* yields the new record followed by the previous list in its order.
C8_InsertPrepends ==
    (last.op = "RoomEvent" /\ last.payload.eventType = "INSERT") =>
        LET n == last.payload.new
            b == last.before
        IN /\ n.session_date # TodayStr => rooms = b
           /\ (n.session_date = TodayStr /\ n.id \notin Ids(b)) => rooms = <<n>> \o b

\* C8 witness: a room scheduled today was prepended to a non-empty list.
C8_Prepended ==
    /\ last.op = "RoomEvent"
    /\ last.payload.eventType = "INSERT"
    /\ last.before # <<>>
    /\ Len(rooms) = Len(last.before) + 1
    /\ rooms[1] = last.payload.new
    /\ rooms[2] = last.before[1]

(***************************************************************************)
(* Properties of the rooms list against the store (SpecRooms and, for      *)
(* liveness, SpecRoomsFair).                                               *)
(***************************************************************************)
\* What the list is meant to mirror: today's sessions, newest first.
StoreToday == TodayRooms(store, created)

\* C6: after any sequence of full fetches and insert/update/delete feed
\* events within one calendar day, every record held in the local rooms
\* list has scheduled date equal to today.
C6_OnlyTodayInList ==
    \A i \in DOMAIN rooms : rooms[i].session_date = TodayStr

\* C9: if from some point on the store no longer changes (every behaviour
\* makes finitely many changes) and fetches succeed, then under fair
\* scheduling of the refresh timer and of fetch completion the local list
\* eventually equals today's sessions of the store and stays equal, whatever
\* events were lost before.
C9_RefreshSelfHeals == <>[]online => <>[](rooms = StoreToday)

\* C9 witness: a successful fetch was applied to a list that differed from
\* today's sessions of the store, with no event pending, and made them equal.
C9_Healed ==
    /\ last.op = "FetchApply"
    /\ last.reply.ok
    /\ roomFeed = <<>>
    /\ last.before # StoreToday
    /\ rooms = StoreToday
    /\ rooms # <<>>

\* C10: applying a successful fetch result makes the local list exactly the
\* snapshot the store answered with, also when the store changed after the
\* answer and the feed event of that change was applied before: the event's
\* effect is discarded.
C10_FetchSnapshotWins ==
    (last.op = "FetchApply" /\ last.reply.ok) => rooms = last.reply.data

\* C10 witness: the list matched the store, in which a room had been
\* deleted; a fetch answered before the deletion was applied, and the list
\* holds the deleted room again.
C10_DeletedRoomReappears ==
    /\ last.op = "FetchApply"
    /\ last.reply.ok
    /\ roomFeed = <<>>
    /\ last.before = StoreToday
    /\ \E i \in DOMAIN rooms :
          /\ store[rooms[i].id] = NoRow
          /\ rooms[i].id \notin Ids(last.before)

(***************************************************************************)
(* Operator writes: handleEditRoom and handleDeleteRoom, with the store's  *)
(* side of roomService.updateRoom and roomService.deleteRoom.              *)
(***************************************************************************)
MaxRoomCalls == 1
\* The rooms that exist and are listed when the operator starts writing.
ListedRooms == {1, 2}

\* A roomService call in progress. pc names the request the store has yet to
\* execute: "update" (updateRoom), "sessions" then "room" (deleteRoom).
RoomCall(kind, rid, name, pc) == [kind |-> kind, rid |-> rid, name |-> name, pc |-> pc]

\* What the service returns: {data, error}; sessionsOk records whether the
\* participation delete of a deleteRoom had succeeded.
RoomReply(kind, rid, err, data, sessionsOk) ==
    [kind |-> kind, rid |-> rid, error |-> err, data |-> data, sessionsOk |-> sessionsOk]

\* ---- handleEditRoom up to its await: updateRoom(roomId, updatedData) ----
\* handleEditRoom is called for a listed room; the edited fields are reduced
\* to the name, and the stored date stays as it is.
EditRoomStart(rid, name) ==
    /\ rid \in Ids(rooms)
    /\ BagCardinality(roomCalls) + BagCardinality(roomReplies) < MaxRoomCalls
    /\ roomCalls' = roomCalls (+) SetToBag({RoomCall("edit", rid, name, "update")})
    /\ last' = NoLast
    /\ UNCHANGED <<roomReplies, occVars, roomVars, foldVars, nonWriteVars>>

\* ---- the store executes .update({...}).eq('id', id).select() ----
\* An id that is no id of the table matches no row.
EditRoomStore(c, ok) ==
    /\ BagIn(c, roomCalls)
    /\ c.pc = "update"
    /\ roomCalls' = roomCalls (-) SetToBag({c})
    /\ IF ok /\ c.rid \in RoomIds /\ store[c.rid] # NoRow
       THEN LET row == RoomRow(c.rid, store[c.rid].session_date, c.name) IN
            /\ roomOps < MaxRoomOps
            /\ Len(roomFeed) < MaxRoomFeed
            /\ store' = [store EXCEPT ![c.rid] = row]
            /\ roomFeed' = Append(roomFeed, Payload("UPDATE", row, store[c.rid]))
            /\ roomOps' = roomOps + 1
            /\ roomReplies' = roomReplies
                   (+) SetToBag({RoomReply("edit", c.rid, FALSE, <<row>>, TRUE)})
       ELSE /\ UNCHANGED <<store, roomFeed, roomOps>>
            /\ roomReplies' = roomReplies
                   (+) SetToBag({RoomReply("edit", c.rid, ~ok, <<>>, TRUE)})
    /\ last' = NoLast
    /\ UNCHANGED <<created, online, fetchSent, fetchReplies, rooms, isLoading, error,
                   occVars, foldVars, nonWriteVars>>

\* setRooms(prev => prev.map(room => room.id === roomId ? data[0] : room))
EditResult(prev, roomId, data) ==
    [i \in DOMAIN prev |-> IF prev[i].id = roomId THEN data[1] ELSE prev[i]]

\* ---- handleEditRoom after its await ----
EditApply(r) ==
    /\ BagIn(r, roomReplies)
    /\ r.kind = "edit"
    /\ roomReplies' = roomReplies (-) SetToBag({r})
    /\ rooms' = IF ~r.error /\ Len(r.data) > 0
                THEN EditResult(rooms, r.rid, r.data)
                ELSE rooms
    /\ last' = [op |-> "EditApply", reply |-> r, before |-> rooms]
    /\ UNCHANGED <<roomCalls, store, created, roomFeed, online, fetchSent, fetchReplies,
                   isLoading, error, roomOps, occVars, foldVars, nonWriteVars>>

\* The participation records of a room: .eq('room_id', id)
SessionsOf(rid) ==
    {s \in SessionIds : IF user_sessions[s] = NoRow THEN FALSE
                        ELSE user_sessions[s].room_id = rid}

\* ---- handleDeleteRoom up to its await: deleteRoom(roomId) ----
DeleteRoomStart(rid) ==
    /\ rid \in Ids(rooms)
    /\ BagCardinality(roomCalls) + BagCardinality(roomReplies) < MaxRoomCalls
    /\ roomCalls' = roomCalls (+) SetToBag({RoomCall("delete", rid, "", "sessions")})
    /\ last' = NoLast
    /\ UNCHANGED <<roomReplies, occVars, roomVars, foldVars, nonWriteVars>>

\* Variant that goes on to the rooms delete whatever the first delete returned.
DeleteSessionsIgnoreError(c, ok) ==
    /\ BagIn(c, roomCalls)
    /\ c.pc = "sessions"
    /\ user_sessions' = IF ok
                        THEN [s \in SessionIds |->
                                 IF s \in SessionsOf(c.rid) THEN NoRow ELSE user_sessions[s]]
                        ELSE user_sessions
    /\ roomCalls' = (roomCalls (-) SetToBag({c}))
                    (+) SetToBag({RoomCall("delete", c.rid, "", "room")})
    /\ roomReplies' = roomReplies
    /\ last' = [op |-> "DeleteSessions", ok |-> ok, call |-> c,
                storeBefore |-> store, callsBefore |-> roomCalls]
    /\ UNCHANGED <<current_users, sessFeed, tasks, sessOps, roomVars, foldVars, nonWriteVars>>

\* ---- deleteRoom: the store executes the delete on user_sessions ----
\* On sessionsError the function throws into its catch and returns the error.
DeleteSessions(c, ok) ==
    /\ BagIn(c, roomCalls)
    /\ c.pc = "sessions"
    /\ IF ok
       THEN /\ user_sessions' = [s \in SessionIds |->
                                    IF s \in SessionsOf(c.rid) THEN NoRow
                                    ELSE user_sessions[s]]
            /\ roomCalls' = (roomCalls (-) SetToBag({c}))
                            (+) SetToBag({RoomCall("delete", c.rid, "", "room")})
            /\ roomReplies' = roomReplies
       ELSE /\ user_sessions' = user_sessions
            /\ roomCalls' = roomCalls (-) SetToBag({c})
            /\ roomReplies' = roomReplies
                   (+) SetToBag({RoomReply("delete", c.rid, TRUE, <<>>, FALSE)})
    /\ last' = [op |-> "DeleteSessions", ok |-> ok, call |-> c,
                storeBefore |-> store, callsBefore |-> roomCalls]
    /\ UNCHANGED <<current_users, sessFeed, tasks, sessOps, roomVars, foldVars, nonWriteVars>>

\* ---- deleteRoom: the store executes the delete on rooms ----
\* The foreign key of user_sessions refuses the delete while a participation
\* record still refers to the room.
DeleteRow(c, ok) ==
    /\ BagIn(c, roomCalls)
    /\ c.pc = "room"
    /\ ok => SessionsOf(c.rid) = {}
    /\ roomCalls' = roomCalls (-) SetToBag({c})
    /\ roomReplies' = roomReplies (+) SetToBag({RoomReply("delete", c.rid, ~ok, <<>>, TRUE)})
    /\ IF ok /\ store[c.rid] # NoRow
       THEN /\ roomOps < MaxRoomOps
            /\ Len(roomFeed) < MaxRoomFeed
            /\ store' = [store EXCEPT ![c.rid] = NoRow]
            /\ roomFeed' = Append(roomFeed, Payload("DELETE", NoRow, store[c.rid]))
            /\ roomOps' = roomOps + 1
       ELSE UNCHANGED <<store, roomFeed, roomOps>>
    /\ last' = [op |-> "DeleteRow", ok |-> ok, call |-> c]
    /\ UNCHANGED <<created, online, fetchSent, fetchReplies, rooms, isLoading, error,
                   occVars, foldVars, nonWriteVars>>

\* ---- handleDeleteRoom after its await ----
DeleteApply(r) ==
    /\ BagIn(r, roomReplies)
    /\ r.kind = "delete"
    /\ roomReplies' = roomReplies (-) SetToBag({r})
    /\ rooms' = IF r.error THEN rooms ELSE RoomDelete(rooms, [id |-> r.rid])
    /\ last' = [op |-> "DeleteApply", reply |-> r, before |-> rooms]
    /\ UNCHANGED <<roomCalls, store, created, roomFeed, online, fetchSent, fetchReplies,
                   isLoading, error, roomOps, occVars, foldVars, nonWriteVars>>

\* The panel with today's rooms loaded: the listed rooms exist and are
\* scheduled today, and every participation record belongs to room 1.
InitWrites ==
    /\ user_sessions = [s \in SessionIds |-> SessionRow(s, 1, 5)]
    /\ current_users = [r \in RoomIds |-> IF r = 1 THEN NumSessions ELSE 0]
    /\ sessFeed = <<>>
    /\ tasks = EmptyBag
    /\ sessOps = 0
    /\ store = [r \in RoomIds |-> IF r \in ListedRooms THEN RoomRow(r, TodayStr, "a")
                                  ELSE NoRow]
    /\ created = [i \in 1..Cardinality(ListedRooms) |-> i]
    /\ roomFeed = <<>>
    /\ online = TRUE
    /\ fetchSent = 0
    /\ fetchReplies = EmptyBag
    /\ rooms = TodayRooms([r \in RoomIds |-> IF r \in ListedRooms
                                             THEN RoomRow(r, TodayStr, "a") ELSE NoRow],
                          [i \in 1..Cardinality(ListedRooms) |-> i])
    /\ isLoading = FALSE
    /\ error = FALSE
    /\ roomOps = 0
    /\ withdrawals = <<>>
    /\ promoCodes = <<>>
    /\ roomCalls = EmptyBag
    /\ roomReplies = EmptyBag
    /\ PayoutUnmounted
    /\ NoCardRendered
    /\ NoMessageCall
    /\ UiIdle
    /\ last = NoLast

NextWrites ==
    \/ \E rid \in RoomIds, n \in Names : EditRoomStart(rid, n)
    \/ \E c \in BagToSet(roomCalls), ok \in BOOLEAN : EditRoomStore(c, ok)
    \/ \E r \in BagToSet(roomReplies) : EditApply(r)
    \/ \E rid \in RoomIds : DeleteRoomStart(rid)
    \/ \E c \in BagToSet(roomCalls), ok \in BOOLEAN : DeleteSessions(c, ok)
    \/ \E c \in BagToSet(roomCalls), ok \in BOOLEAN : DeleteRow(c, ok)
    \/ \E r \in BagToSet(roomReplies) : DeleteApply(r)
    \/ \E rid \in RoomIds, d \in Dates, n \in Names : StoreUpdate(rid, d, n)
    \/ RoomEvent

SpecWrites == InitWrites /\ [][NextWrites]_vars

\* C11: once the direct local update of an edit and every feed update event
\* for a room have been applied, in whichever order they are delivered, the
\* local record of the room equals the store's row of the room.
EditSettled(rid) ==
    /\ \A i \in DOMAIN roomFeed : ~(roomFeed[i].eventType = "UPDATE" /\ roomFeed[i].new.id = rid)
    /\ \A c \in BagToSet(roomCalls) : ~(c.kind = "edit" /\ c.rid = rid)
    /\ \A r \in BagToSet(roomReplies) : ~(r.kind = "edit" /\ r.rid = rid)
C11_EditConverges ==
    \A i \in DOMAIN rooms :
        (EditSettled(rooms[i].id) /\ store[rooms[i].id] # NoRow)
            => rooms[i] = store[rooms[i].id]

\* C12: when the participation delete of a deleteRoom fails, the delete of
\* the room row is never issued, the room row stays as it was, an error is
\* returned and handleDeleteRoom leaves the list alone; the room row is
\* deleted only by a call whose participation delete has succeeded.
C12_NoPartialDelete ==
    /\ (last.op = "DeleteSessions" /\ ~last.ok)
          => /\ store = last.storeBefore
             /\ roomCalls = last.callsBefore (-) SetToBag({last.call})
             /\ BagIn(RoomReply("delete", last.call.rid, TRUE, <<>>, FALSE), roomReplies)
    /\ (last.op = "DeleteApply" /\ last.reply.error) => rooms = last.before
C12_FailedDeleteKeepsRoom ==
    /\ last.op = "DeleteApply"
    /\ last.reply.error
    /\ ~last.reply.sessionsOk
    /\ store[last.reply.rid] # NoRow
    /\ last.reply.rid \in Ids(rooms)

(***************************************************************************)
(* Withdrawal-request workflow of the payout screen (PayoutManager.tsx).   *)
(***************************************************************************)
MaxPayOps == 2
MaxPayCalls == 1
MaxWFeed == 1
MaxNoteLen == 1

\* One request: every handler and every store request acts on the request
\* with the id it was given, and requests do not interact.
WithdrawalIds == {1}
\* status: 'pending' | 'approved' | 'paid' | 'rejected'
AllStatuses == {"pending", "approved", "paid", "rejected"}
Payable == {"pending", "approved"}

\* The texts of the note: a blank and a visible character.
NoteChars == {" ", "x"}
NoteTexts == UNION {[1..n -> NoteChars] : n \in 0..MaxNoteLen}
\* JavaScript null where a note is expected.
NullNote == <<"null">>

\* String.prototype.trim(): the text without leading and trailing blanks.
RECURSIVE TrimStart(_)
TrimStart(t) == IF t # <<>> /\ Head(t) = " " THEN TrimStart(Tail(t)) ELSE t
RECURSIVE TrimEnd(_)
TrimEnd(t) ==
    IF t # <<>> /\ t[Len(t)] = " " THEN TrimEnd(SubSeq(t, 1, Len(t) - 1)) ELSE t
Trim(t) == TrimEnd(TrimStart(t))

\* interface WithdrawalRequest, restricted to id, status and notes.
PayoutRow(wid, status, n) == [id |-> wid, status |-> status, notes |-> n]

\* Variant that passes the text as it is.
PayNotesRaw(n) == n
\* markAsPaid(selectedWithdrawal.id, notes || null)
PayNotes(n) == IF n = <<>> THEN NullNote ELSE n

\* supabase.rpc('process_withdrawal_payment', {withdrawal_id, admin_notes})
RpcRequest(wid, n) ==
    [fn |-> "rpc", name |-> "process_withdrawal_payment", id |-> wid, status |-> "",
     notes |-> n]

\* Variant that starts with .select('*').eq('id', id).single()
RejectRequestReadFirst(wid, n) ==
    [fn |-> "select", name |-> "influencer_withdrawals", id |-> wid, status |-> "",
     notes |-> n]
\* .from('influencer_withdrawals').update({status: 'rejected', notes}).eq('id', id)
RejectRequest(wid, n) ==
    [fn |-> "update", name |-> "influencer_withdrawals", id |-> wid,
     status |-> "rejected", notes |-> n]

PayReply(fn, err) == [fn |-> fn, error |-> err]

\* What a step of the payout screen saw before it ran.
PayBefore ==
    [selected |-> selectedWithdrawal, notes |-> notes, showPay |-> showPayModal,
     showReject |-> showRejectModal, calls |-> payCalls, list |-> withdrawals,
     wstore |-> wstore]

ModalOpen == showPayModal \/ showRejectModal

\* ---- another client or the store's own jobs change a request ----
\* pending -> approved, pending/approved -> paid, pending/approved -> rejected
OtherChange(wid, status) ==
    /\ payOps < MaxPayOps
    /\ Len(wFeed) < MaxWFeed
    /\ wstore[wid].status \in Payable
    /\ status \in {"approved", "paid", "rejected"}
    /\ status # wstore[wid].status
    /\ wstore' = [wstore EXCEPT ![wid].status = status]
    /\ wFeed' = Append(wFeed, Payload("UPDATE", [wstore[wid] EXCEPT !.status = status],
                                      wstore[wid]))
    /\ payOps' = payOps + 1
    /\ last' = NoLast
    /\ UNCHANGED <<withdrawals, selectedWithdrawal, showPayModal, showRejectModal, notes,
                   payCalls, payReplies, promoCodes, occVars, roomVars, nonPayVars>>

\* ---- withdrawalSubscription handler ----
WithdrawalFeedEvent ==
    /\ wFeed # <<>>
    /\ wFeed' = Tail(wFeed)
    /\ withdrawals' = WithdrawalFold(withdrawals, Head(wFeed))
    /\ last' = NoLast
    /\ UNCHANGED <<wstore, selectedWithdrawal, showPayModal, showRejectModal, notes,
                   payCalls, payReplies, payOps, promoCodes, occVars, roomVars, nonPayVars>>

\* ---- handlePayClick / handleRejectClick ----
\* The buttons are rendered for a row whose local status is pending or
\* approved; an open modal covers the table.
HandlePayClick(i) ==
    /\ ~ModalOpen
    /\ i \in DOMAIN withdrawals
    /\ withdrawals[i].status \in Payable
    /\ selectedWithdrawal' = withdrawals[i]
    /\ notes' = <<>>
    /\ showPayModal' = TRUE
    /\ last' = NoLast
    /\ UNCHANGED <<wstore, wFeed, showRejectModal, payCalls, payReplies, payOps,
                   foldVars, occVars, roomVars, nonPayVars>>

HandleRejectClick(i) ==
    /\ ~ModalOpen
    /\ i \in DOMAIN withdrawals
    /\ withdrawals[i].status \in Payable
    /\ selectedWithdrawal' = withdrawals[i]
    /\ notes' = <<>>
    /\ showRejectModal' = TRUE
    /\ last' = NoLast
    /\ UNCHANGED <<wstore, wFeed, showPayModal, payCalls, payReplies, payOps,
                   foldVars, occVars, roomVars, nonPayVars>>

\* ---- <textarea onChange={(e) => setNotes(e.target.value)}> ----
SetNotes(n) ==
    /\ ModalOpen
    /\ n # notes
    /\ notes' = n
    /\ last' = NoLast
    /\ UNCHANGED <<wstore, wFeed, selectedWithdrawal, showPayModal, showRejectModal,
                   payCalls, payReplies, payOps, foldVars, occVars, roomVars, nonPayVars>>

\* ---- handleCancelModal ----
HandleCancelModal ==
    /\ ModalOpen
    /\ showPayModal' = FALSE
    /\ showRejectModal' = FALSE
    /\ selectedWithdrawal' = NoRow
    /\ notes' = <<>>
    /\ last' = NoLast
    /\ UNCHANGED <<wstore, wFeed, payCalls, payReplies, payOps, foldVars, occVars,
                   roomVars, nonPayVars>>

\* ---- handleConfirmPay up to its await ----
HandleConfirmPay ==
    /\ showPayModal
    /\ IF selectedWithdrawal = NoRow
       THEN payCalls' = payCalls
       ELSE /\ BagCardinality(payCalls) + BagCardinality(payReplies) < MaxPayCalls
            /\ payCalls' = payCalls
                   (+) SetToBag({RpcRequest(selectedWithdrawal.id, PayNotes(notes))})
    /\ last' = [op |-> "ConfirmPay", before |-> PayBefore]
    /\ UNCHANGED <<wstore, wFeed, selectedWithdrawal, showPayModal, showRejectModal, notes,
                   payReplies, payOps, foldVars, occVars, roomVars, nonPayVars>>

\* Variant that tests the text without trimming it.
RejectRefusedUntrimmed(sel, n) == sel = NoRow \/ n = <<>>
\* if (!selectedWithdrawal || !notes.trim()) return
RejectRefused(sel, n) == sel = NoRow \/ Trim(n) = <<>>

\* ---- handleConfirmReject up to its await ----
\* The handler is taken as callable whenever the modal is shown; the button's
\* disabled attribute repeats the test on the note.
HandleConfirmReject ==
    /\ showRejectModal
    /\ IF RejectRefused(selectedWithdrawal, notes)
       THEN payCalls' = payCalls
       ELSE /\ BagCardinality(payCalls) + BagCardinality(payReplies) < MaxPayCalls
            /\ payCalls' = payCalls (+) SetToBag({RejectRequest(selectedWithdrawal.id, notes)})
    /\ last' = [op |-> "ConfirmReject", before |-> PayBefore]
    /\ UNCHANGED <<wstore, wFeed, selectedWithdrawal, showPayModal, showRejectModal, notes,
                   payReplies, payOps, foldVars, occVars, roomVars, nonPayVars>>

\* ---- the store runs process_withdrawal_payment ----
\* One transaction: a pending or approved request becomes paid with the
\* note; any other request makes the procedure raise.
StoreRpc(c, ok) ==
    /\ BagIn(c, payCalls)
    /\ c.fn = "rpc"
    /\ payCalls' = payCalls (-) SetToBag({c})
    /\ IF ok /\ wstore[c.id].status \in Payable
       THEN LET row == PayoutRow(c.id, "paid", c.notes) IN
            /\ Len(wFeed) < MaxWFeed
            /\ wstore' = [wstore EXCEPT ![c.id] = row]
            /\ wFeed' = Append(wFeed, Payload("UPDATE", row, wstore[c.id]))
            /\ payReplies' = payReplies (+) SetToBag({PayReply("rpc", FALSE)})
       ELSE /\ UNCHANGED <<wstore, wFeed>>
            /\ payReplies' = payReplies (+) SetToBag({PayReply("rpc", TRUE)})
    /\ last' = [op |-> "StoreRpc", call |-> c, statusBefore |-> wstore[c.id].status]
    /\ UNCHANGED <<selectedWithdrawal, showPayModal, showRejectModal, notes, payOps,
                   foldVars, occVars, roomVars, nonPayVars>>

\* ---- the store executes the update of rejectWithdrawal ----
StoreReject(c, ok) ==
    /\ BagIn(c, payCalls)
    /\ c.fn = "update"
    /\ payCalls' = payCalls (-) SetToBag({c})
    /\ IF ok
       THEN LET row == PayoutRow(c.id, c.status, c.notes) IN
            /\ Len(wFeed) < MaxWFeed
            /\ wstore' = [wstore EXCEPT ![c.id] = row]
            /\ wFeed' = Append(wFeed, Payload("UPDATE", row, wstore[c.id]))
            /\ payReplies' = payReplies (+) SetToBag({PayReply("update", FALSE)})
       ELSE /\ UNCHANGED <<wstore, wFeed>>
            /\ payReplies' = payReplies (+) SetToBag({PayReply("update", TRUE)})
    /\ last' = [op |-> "StoreReject", call |-> c, statusBefore |-> wstore[c.id].status]
    /\ UNCHANGED <<selectedWithdrawal, showPayModal, showRejectModal, notes, payOps,
                   foldVars, occVars, roomVars, nonPayVars>>

\* ---- handleConfirmPay / handleConfirmReject after the await ----
ConfirmPayResume(r) ==
    /\ BagIn(r, payReplies)
    /\ r.fn = "rpc"
    /\ payReplies' = payReplies (-) SetToBag({r})
    /\ IF r.error
       THEN UNCHANGED <<showPayModal, selectedWithdrawal, notes>>
       ELSE /\ showPayModal' = FALSE
            /\ selectedWithdrawal' = NoRow
            /\ notes' = <<>>
    /\ last' = [op |-> "ConfirmPayResume", before |-> PayBefore]
    /\ UNCHANGED <<wstore, wFeed, showRejectModal, payCalls, payOps, foldVars, occVars,
                   roomVars, nonPayVars>>

ConfirmRejectResume(r) ==
    /\ BagIn(r, payReplies)
    /\ r.fn = "update"
    /\ payReplies' = payReplies (-) SetToBag({r})
    /\ IF r.error
       THEN UNCHANGED <<showRejectModal, selectedWithdrawal, notes>>
       ELSE /\ showRejectModal' = FALSE
            /\ selectedWithdrawal' = NoRow
            /\ notes' = <<>>
    /\ last' = NoLast
    /\ UNCHANGED <<wstore, wFeed, showPayModal, payCalls, payOps, foldVars, occVars,
                   roomVars, nonPayVars>>

\* The payout screen after loadWithdrawals: every request is listed as stored.
InitPayout ==
    /\ InitOcc
    /\ InitRooms
    /\ current_users = [r \in RoomIds |-> 0]
    /\ \E st \in [WithdrawalIds -> AllStatuses] :
          /\ wstore = [w \in WithdrawalIds |-> PayoutRow(w, st[w], NullNote)]
          /\ withdrawals = [w \in WithdrawalIds |-> PayoutRow(w, st[w], NullNote)]
    /\ wFeed = <<>>
    /\ selectedWithdrawal = NoRow
    /\ showPayModal = FALSE
    /\ showRejectModal = FALSE
    /\ notes = <<>>
    /\ payCalls = EmptyBag
    /\ payReplies = EmptyBag
    /\ payOps = 0
    /\ promoCodes = <<>>
    /\ roomCalls = EmptyBag
    /\ roomReplies = EmptyBag
    /\ NoCardRendered
    /\ NoMessageCall
    /\ UiIdle
    /\ last = NoLast

NextPayout ==
    \/ \E w \in WithdrawalIds, st \in AllStatuses : OtherChange(w, st)
    \/ WithdrawalFeedEvent
    \/ \E i \in 1..Cardinality(WithdrawalIds) : HandlePayClick(i)
    \/ \E i \in 1..Cardinality(WithdrawalIds) : HandleRejectClick(i)
    \/ \E n \in NoteTexts : SetNotes(n)
    \/ HandleCancelModal
    \/ HandleConfirmPay
    \/ HandleConfirmReject
    \/ \E c \in BagToSet(payCalls), ok \in BOOLEAN : StoreRpc(c, ok)
    \/ \E c \in BagToSet(payCalls), ok \in BOOLEAN : StoreReject(c, ok)
    \/ \E r \in BagToSet(payReplies) : ConfirmPayResume(r)
    \/ \E r \in BagToSet(payReplies) : ConfirmRejectResume(r)

SpecPayout == InitPayout /\ [][NextPayout]_vars

\* C13: confirming a rejection issues the reject request exactly when a
\* withdrawal is selected and the trimmed note is non-empty; with no
\* selection or a note that is empty or all blanks it issues no remote call
\* and changes no state.
C13_EmptyNoteRefused ==
    last.op = "ConfirmReject" =>
        IF last.before.selected # NoRow /\ Trim(last.before.notes) # <<>>
        THEN payCalls = last.before.calls
                 (+) SetToBag({RejectRequest(last.before.selected.id, last.before.notes)})
        ELSE PayBefore = last.before
C13_BlankNoteConfirmed ==
    /\ last.op = "ConfirmReject"
    /\ last.before.selected # NoRow
    /\ last.before.notes # <<>>
    /\ Trim(last.before.notes) = <<>>
    /\ payCalls = EmptyBag

\* C14: a settlement call or a reject update is issued only for a request
\* whose stored status is pending or approved, and no request of the client
\* moves a stored request out of paid or rejected.
C14_ClientFollowsStateMachine ==
    /\ (last.op \in {"ConfirmPay", "ConfirmReject"} /\ payCalls # last.before.calls)
          => wstore[last.before.selected.id].status \in Payable
    /\ (last.op \in {"StoreRpc", "StoreReject"} /\ last.statusBefore \in {"paid", "rejected"})
          => wstore[last.call.id].status = last.statusBefore

\* The step of handleConfirmPay up to its await, against the state before it.
ConfirmPayIssuesOneRpc ==
    (last.op = "ConfirmPay" /\ last.before.selected # NoRow) =>
        /\ payCalls = last.before.calls
              (+) SetToBag({[fn |-> "rpc", name |-> "process_withdrawal_payment",
                             id |-> last.before.selected.id, status |-> "",
                             notes |-> IF last.before.notes = <<>> THEN NullNote
                                       ELSE last.before.notes]})
        /\ [PayBefore EXCEPT !.calls = last.before.calls] = last.before
\* C15: confirming a payment issues exactly one remote call, the settlement
\* procedure with the request id and the note (null when the note is empty),
\* and changes neither the store nor the local withdrawals list nor any other
\* state of the screen.
C15_PayIsOneRpc ==
    /\ ConfirmPayIssuesOneRpc
    /\ last.op = "ConfirmPayResume" =>
          /\ payCalls = last.before.calls
          /\ withdrawals = last.before.list
          /\ wstore = last.before.wstore
C15_PaidWithEmptyNote ==
    /\ last.op = "ConfirmPay"
    /\ last.before.selected # NoRow
    /\ last.before.notes = <<>>
    /\ payCalls # EmptyBag

\* C16 as stated: a rejection from the payout screen starts by reading the
\* current record.
C16_RejectReadsRecordFirst ==
    (last.op = "ConfirmReject" /\ payCalls # last.before.calls) =>
        \E c \in BagToSet(payCalls) : c.fn = "select" /\ c.id = last.before.selected.id

\* C16: a rejection from the payout screen issues a single update that sets
\* the status to rejected and the notes to the note, without reading the
\* record; the store then holds status rejected and that note.
C16_RejectIsPlainUpdate ==
    /\ \A c \in BagToSet(payCalls) : c.fn # "select"
    /\ (last.op = "ConfirmReject" /\ payCalls # last.before.calls) =>
          /\ BagCardinality(payCalls) = BagCardinality(last.before.calls) + 1
          /\ BagIn([fn |-> "update", name |-> "influencer_withdrawals",
                    id |-> last.before.selected.id, status |-> "rejected",
                    notes |-> last.before.notes], payCalls)
    /\ (last.op = "StoreReject" /\ wstore[last.call.id].status # last.statusBefore) =>
          /\ wstore[last.call.id].status = "rejected"
          /\ wstore[last.call.id].notes = last.call.notes
C16_RejectedWithNote ==
    /\ last.op = "StoreReject"
    /\ last.statusBefore \in Payable
    /\ wstore[last.call.id].status = "rejected"
    /\ wstore[last.call.id].notes # NullNote

(***************************************************************************)
(* Status labels: getStatusBadge (RoomList.jsx) and the promo-code badge.  *)
(***************************************************************************)
\* A missing time, date or expiry (null, undefined or '').
NoTime == [h |-> -1, m |-> 0, s |-> 0]
NoDate == 0
NoExpiry == [date |-> 0, h |-> 0, m |-> 0]

\* session_start_time / session_end_time: "HH:MM:SS"
TimeOfDay(h, m, sec) == [h |-> h, m |-> m, s |-> sec]
SessionTimes == {NoTime, TimeOfDay(9, 0, 0), TimeOfDay(17, 0, 30)}
\* The wall clock: around both ends of a 09:00-17:00 window, noon and 20:00.
Clock(d, h, m) == [date |-> d, h |-> h, m |-> m]
ClockTimes == {<<8, 59>>, <<9, 0>>, <<12, 0>>, <<17, 0>>, <<17, 1>>, <<20, 0>>}
Clocks == {Clock(d, t[1], t[2]) : d \in Dates, t \in ClockTimes}
\* current_users and max_users: 3/10, 10/10 and one above the cap.
Occupancies == {0, 3, 10, 11}
Capacities == {10}

\* interface Room, restricted to what getStatusBadge reads.
CardRoom(date, start, end, cur, max) ==
    [session_date |-> date, session_start_time |-> start, session_end_time |-> end,
     current_users |-> cur, max_users |-> max]
CardRooms ==
    {CardRoom(d, st, en, c, mx) : d \in Dates \cup {NoDate}, st \in SessionTimes,
                                  en \in SessionTimes, c \in Occupancies, mx \in Capacities}

\* parseTimeString: null for a missing string, otherwise today's Date with
\* setHours(hours, minutes, seconds || 0).
ParseTimeString(timeStr) ==
    IF timeStr = NoTime THEN NoTime ELSE [h |-> timeStr.h, m |-> timeStr.m, s |-> timeStr.s]

\* getHours() * 60 + getMinutes()
MinutesOf(d) == d.h * 60 + d.m

\* Variant that excludes the end of the window.
IsWithinTimeRangeExclusive(currentMinutes, startMinutes, endMinutes) ==
    currentMinutes >= startMinutes /\ currentMinutes < endMinutes
\* currentMinutes >= startMinutes && currentMinutes <= endMinutes
IsWithinTimeRange(currentMinutes, startMinutes, endMinutes) ==
    currentMinutes >= startMinutes /\ currentMinutes <= endMinutes

\* let isActive: date and time gate of getStatusBadge
IsActive(room, currentTime) ==
    LET startTime == ParseTimeString(room.session_start_time)
        endTime == ParseTimeString(room.session_end_time)
    IN IF startTime # NoTime /\ endTime # NoTime
       THEN LET todayFormatted == currentTime.date
                sessionDate == room.session_date
                isCorrectDate == sessionDate = todayFormatted
            IN isCorrectDate
               /\ IsWithinTimeRange(MinutesOf(currentTime), MinutesOf(startTime),
                                    MinutesOf(endTime))
       ELSE FALSE

\* Variant that looks at the occupancy first.
GetStatusBadgeFullFirst(room, currentTime) ==
    LET isFull == room.current_users >= room.max_users IN
    IF isFull THEN "Full"
    ELSE IF ~IsActive(room, currentTime) THEN "Inactive"
    ELSE "Active"

\* getStatusBadge(room) at the time currentTime = new Date()
GetStatusBadge(room, currentTime) ==
    LET isFull == room.current_users >= room.max_users IN
    IF ~IsActive(room, currentTime) THEN "Inactive"
    ELSE IF isFull THEN "Full"
    ELSE "Active"

\* ---- the card is rendered (any re-render of RoomList) ----
RenderCard ==
    /\ badge' = GetStatusBadge(badgeRoom, now)
    /\ last' = [op |-> "RenderCard", room |-> badgeRoom, now |-> now]
    /\ UNCHANGED <<now, badgeRoom, promoShown, promoBadge, occVars, roomVars, foldVars,
                   nonBadgeVars>>

\* ---- time passes; nothing is rendered ----
Later(a, b) == a.date < b.date \/ (a.date = b.date /\ MinutesOf(a) < MinutesOf(b))
Tick(t) ==
    /\ Later(now, t)
    /\ now' = t
    /\ last' = NoLast
    /\ UNCHANGED <<badgeRoom, badge, promoShown, promoBadge, occVars, roomVars, foldVars,
                   nonBadgeVars>>

\* ---- the rooms prop changes (occupancy), which renders the card again ----
OccupancyProp(c) ==
    /\ c # badgeRoom.current_users
    /\ badgeRoom' = [badgeRoom EXCEPT !.current_users = c]
    /\ badge' = GetStatusBadge([badgeRoom EXCEPT !.current_users = c], now)
    /\ last' = [op |-> "RenderCard", room |-> [badgeRoom EXCEPT !.current_users = c],
                now |-> now]
    /\ UNCHANGED <<now, promoShown, promoBadge, occVars, roomVars, foldVars, nonBadgeVars>>

\* A card of any room at any time of the clock, not rendered yet.
InitCard ==
    /\ InitOcc
    /\ InitRooms
    /\ current_users = [r \in RoomIds |-> 0]
    /\ withdrawals = <<>>
    /\ promoCodes = <<>>
    /\ roomCalls = EmptyBag
    /\ roomReplies = EmptyBag
    /\ PayoutUnmounted
    /\ now \in Clocks
    /\ badgeRoom \in CardRooms
    /\ badge = "none"
    /\ promoShown = NoRow
    /\ promoBadge = "none"
    /\ NoMessageCall
    /\ UiIdle
    /\ last = NoLast

NextCard ==
    \/ RenderCard
    \/ \E t \in Clocks : Tick(t)
    \/ \E c \in Occupancies : OccupancyProp(c)

SpecCard == InitCard /\ [][NextCard]_vars

\* The label the classifier is said to produce.
ClaimedLabel(date, start, end, occupancy, max, clock) ==
    IF start = NoTime \/ end = NoTime THEN "Inactive"
    ELSE IF date # clock.date THEN "Inactive"
    ELSE IF clock.h * 60 + clock.m < start.h * 60 + start.m
            \/ clock.h * 60 + clock.m > end.h * 60 + end.m THEN "Inactive"
    ELSE IF occupancy >= max THEN "Full"
    ELSE "Active"

OutsideWindow(room, clock) ==
    \/ room.session_date # clock.date
    \/ room.session_start_time = NoTime
    \/ room.session_end_time = NoTime
    \/ MinutesOf(clock) < MinutesOf(room.session_start_time)
    \/ MinutesOf(clock) > MinutesOf(room.session_end_time)
TotalUses == {0, 49, 50, 51}
MaxUses == {50}
\* expiry_date: none, or a timestamp
Expiries == {NoExpiry} \cup Clocks
\* A promo code, restricted to what the badge reads.
PromoCard(total, max, expiry) ==
    [total_uses |-> total, max_uses |-> max, expiry_date |-> expiry]
PromoCards == {PromoCard(t, mx, e) : t \in TotalUses, mx \in MaxUses, e \in Expiries}

\* new Date(...) as an instant: minutes since the start of date 0.
Instant(c) == (c.date * 24 + c.h) * 60 + c.m

\* Variant that lets the usage count reach the cap.
PromoLabelUpToCap(code, currentTime) ==
    IF code.total_uses <= code.max_uses
       /\ (code.expiry_date = NoExpiry \/ Instant(code.expiry_date) > Instant(currentTime))
    THEN "Active" ELSE "Expired"

\* code.total_uses < code.max_uses
\*   && (!code.expiry_date || new Date(code.expiry_date) > new Date())
\*   ? 'Active' : 'Expired'
PromoLabel(code, currentTime) ==
    IF code.total_uses < code.max_uses
       /\ (code.expiry_date = NoExpiry \/ Instant(code.expiry_date) > Instant(currentTime))
    THEN "Active" ELSE "Expired"

\* ---- the promo card is rendered ----
RenderPromo ==
    /\ promoBadge' = PromoLabel(promoShown, now)
    /\ last' = [op |-> "RenderPromo", code |-> promoShown, now |-> now]
    /\ UNCHANGED <<now, badgeRoom, badge, promoShown, occVars, roomVars, foldVars,
                   nonBadgeVars>>

\* ---- the code is used once more: the feed's UPDATE renders the card again ----
PromoUsed ==
    /\ promoShown.total_uses + 1 \in TotalUses
    /\ promoShown' = [promoShown EXCEPT !.total_uses = @ + 1]
    /\ promoBadge' = PromoLabel([promoShown EXCEPT !.total_uses = @ + 1], now)
    /\ last' = [op |-> "RenderPromo", code |-> [promoShown EXCEPT !.total_uses = @ + 1],
                now |-> now]
    /\ UNCHANGED <<now, badgeRoom, badge, occVars, roomVars, foldVars, nonBadgeVars>>

\* A card of any promo code at any time of the clock, not rendered yet.
InitPromoCard ==
    /\ InitOcc
    /\ InitRooms
    /\ current_users = [r \in RoomIds |-> 0]
    /\ withdrawals = <<>>
    /\ promoCodes = <<>>
    /\ roomCalls = EmptyBag
    /\ roomReplies = EmptyBag
    /\ PayoutUnmounted
    /\ now \in Clocks
    /\ badgeRoom = NoRow
    /\ badge = "none"
    /\ promoShown \in PromoCards
    /\ promoBadge = "none"
    /\ NoMessageCall
    /\ UiIdle
    /\ last = NoLast

NextPromoCard ==
    \/ RenderPromo
    \/ PromoUsed
    \/ \E t \in Clocks : Tick(t)

SpecPromoCard == InitPromoCard /\ [][NextPromoCard]_vars

\* C19: a promo code is shown as Active exactly when its usage count is
\* strictly below its cap and it has no expiry or its expiry is later than
\* the current time; otherwise it is shown as Expired. max_uses 50 with
\* total_uses 50 and no expiry is Expired; with total_uses 49 it is Active.
C19_PromoActiveIff ==
    /\ last.op = "RenderPromo" =>
          /\ promoBadge \in {"Active", "Expired"}
          /\ promoBadge = "Active" <=>
                /\ last.code.total_uses < last.code.max_uses
                /\ \/ last.code.expiry_date = NoExpiry
                   \/ Later(last.now, last.code.expiry_date)
    /\ PromoLabel(PromoCard(50, 50, NoExpiry), Clock(1, 12, 0)) = "Expired"
    /\ PromoLabel(PromoCard(49, 50, NoExpiry), Clock(1, 12, 0)) = "Active"
C19_CapReached ==
    /\ last.op = "RenderPromo"
    /\ last.code = PromoCard(50, 50, NoExpiry)
    /\ promoBadge = "Expired"

(***************************************************************************)
(* statusMessageService: updateStatusMessage and deleteStatusMessage, as   *)
(* called by any number of panels, against the status_message table.       *)
(***************************************************************************)
MaxMsgCalls == 2

\* A row of status_message. The row a call inserts is numbered after the
\* call, so ids grow with created_at (the client's clock at the call).
MessageRow(mid, message) == [id |-> mid, message |-> message]
\* No row (JavaScript null).
NoMessage == [id |-> 0, message |-> ""]

\* A call in progress: at its existence read, or at its write with the row
\* the read returned.
MsgTask(n, fn, message, pc, existing) ==
    [n |-> n, fn |-> fn, message |-> message, pc |-> pc, existingMessage |-> existing]

\* getStatusMessage: .order('created_at', {ascending: false}).limit(1), and
\* data?.[0] || null; a failed read returns data: null.
GetStatusMessage(ok) ==
    IF ok /\ status_message # {}
    THEN CHOOSE r \in status_message : \A q \in status_message : q.id <= r.id
    ELSE NoMessage

\* What a statusMessageService function resolves to: data (<<>> is null) and
\* error (TRUE: error.message, FALSE: null).
MsgResult(data, err) == [data |-> data, error |-> err]

\* result.data?.[0] || null
FirstOrNull(rows) == IF rows = {} THEN <<>> ELSE <<CHOOSE r \in rows : TRUE>>

\* The rows .select() returns after the update or the insert of
\* updateStatusMessage: the row updated, if it is still there, or the row
\* inserted.
MessageWritten(t) ==
    IF t.existingMessage # NoMessage
    THEN {MessageRow(r.id, t.message) : r \in {q \in status_message :
                                                 q.id = t.existingMessage.id}}
    ELSE {MessageRow(1 + t.n, t.message)}

\* ---- a panel calls updateStatusMessage(message) / deleteStatusMessage() ----
UpdateStatusMessage(message) ==
    /\ msgCalls < MaxMsgCalls
    /\ msgCalls' = msgCalls + 1
    /\ msgTasks' = msgTasks
           (+) SetToBag({MsgTask(msgCalls + 1, "update", message, "read", NoMessage)})
    /\ last' = NoLast
    /\ UNCHANGED <<status_message, occVars, roomVars, foldVars, nonMsgVars>>

DeleteStatusMessage ==
    /\ msgCalls < MaxMsgCalls
    /\ msgCalls' = msgCalls + 1
    /\ msgTasks' = msgTasks (+) SetToBag({MsgTask(msgCalls + 1, "delete", "", "read", NoMessage)})
    /\ last' = NoLast
    /\ UNCHANGED <<status_message, occVars, roomVars, foldVars, nonMsgVars>>

\* ---- const { data: existingMessage } = await this.getStatusMessage() ----
\* The error of the read is not looked at. deleteStatusMessage returns when
\* there is no existing message.
MessageRead(t, ok) ==
    /\ BagIn(t, msgTasks)
    /\ t.pc = "read"
    /\ LET existingMessage == GetStatusMessage(ok) IN
       msgTasks' = (msgTasks (-) SetToBag({t}))
                   (+) (IF t.fn = "delete" /\ existingMessage = NoMessage
                        THEN EmptyBag
                        ELSE SetToBag({MsgTask(t.n, t.fn, t.message, "write",
                                                existingMessage)}))
    /\ last' = [op |-> "MessageRead", ok |-> ok, task |-> t, rows |-> status_message,
                returned |-> t.fn = "delete" /\ GetStatusMessage(ok) = NoMessage,
                result |-> MsgResult(<<>>, FALSE)]
    /\ UNCHANGED <<status_message, msgCalls, occVars, roomVars, foldVars, nonMsgVars>>

\* ---- the update, insert or delete of the call is executed by the store ----
MessageWrite(t, ok) ==
    /\ BagIn(t, msgTasks)
    /\ t.pc = "write"
    /\ msgTasks' = msgTasks (-) SetToBag({t})
    /\ status_message' =
          IF ~ok THEN status_message
          ELSE IF t.fn = "delete"
          THEN {r \in status_message : r.id # t.existingMessage.id}
          ELSE IF t.existingMessage # NoMessage
          THEN {IF r.id = t.existingMessage.id THEN MessageRow(r.id, t.message) ELSE r :
                   r \in status_message}
          ELSE status_message \cup {MessageRow(1 + t.n, t.message)}
    /\ last' = [op |-> "MessageWrite", ok |-> ok, task |-> t, rows |-> status_message,
                returned |-> TRUE,
                result |-> IF ~ok THEN MsgResult(<<>>, TRUE)
                           ELSE IF t.fn = "delete" THEN MsgResult(<<TRUE>>, FALSE)
                           ELSE MsgResult(FirstOrNull(MessageWritten(t)), FALSE)]
    /\ UNCHANGED <<msgCalls, occVars, roomVars, foldVars, nonMsgVars>>

\* A table with at most one row, and no call started.
InitMessage ==
    /\ InitOcc
    /\ InitRooms
    /\ current_users = [r \in RoomIds |-> 0]
    /\ withdrawals = <<>>
    /\ promoCodes = <<>>
    /\ roomCalls = EmptyBag
    /\ roomReplies = EmptyBag
    /\ PayoutUnmounted
    /\ NoCardRendered
    /\ status_message \in {{}} \cup {{MessageRow(1, n)} : n \in Names}
    /\ msgTasks = EmptyBag
    /\ msgCalls = 0
    /\ UiIdle
    /\ last = NoLast

NextMessage ==
    \/ \E n \in Names : UpdateStatusMessage(n)
    \/ DeleteStatusMessage
    \/ \E t \in BagToSet(msgTasks), ok \in BOOLEAN : MessageRead(t, ok)
    \/ \E t \in BagToSet(msgTasks), ok \in BOOLEAN : MessageWrite(t, ok)

SpecMessage == InitMessage /\ [][NextMessage]_vars

\* C20: after any sequence and interleaving of updateStatusMessage and
\* deleteStatusMessage calls that starts from a table with at most one row,
\* runs with a failed existence read included, the table holds at most one row.
C20_Singleton == Cardinality(status_message) <= 1

(***************************************************************************)
(* Failures of the occupancy updater.                                      *)
(***************************************************************************)
\* A step in which the read or the write of updateRoomUserCount fails.
FailedStep == last'.op \in {"UpdateRead", "UpdateWrite"} /\ ~last'.ok

\* C21: a failed read or write of the occupancy updater is swallowed. The
\* handler that made the call ends (it is no longer suspended, so nothing was
\* raised into it and nothing is asked again), the stored counters are as they
\* were, no handler is newly waiting to write, and the feed and the other
\* handlers are untouched, so later events are handled as if the failed
\* event had asked for nothing.
C21_FailureSwallowed ==
    [][FailedStep =>
         /\ current_users' = current_users
         /\ tasks' \sqsubseteq tasks
         /\ BagCardinality(tasks') = BagCardinality(tasks) - 1
         /\ BagToSet(tasks') \subseteq BagToSet(tasks)
         /\ sessFeed' = sessFeed
         /\ user_sessions' = user_sessions]_vars

\* C21 witness: the read of an increment has failed, the counter of its room
\* is still 0, no handler is left, and a later event is waiting in the feed.
C21_FailedReadThenNextEvent ==
    /\ last.op = "UpdateRead"
    /\ ~last.ok
    /\ last.call.change = 1
    /\ current_users[last.call.roomId] = 0
    /\ tasks = EmptyBag
    /\ sessFeed # <<>>

(***************************************************************************)
(* Results of the data-access functions.                                   *)
(***************************************************************************)
\* C22 (as claimed): when a statusMessageService function returns at a remote
\* call, its result has error null if that call succeeded, and data null and
\* an error message if that call failed.
C22_ErrorReportsFailure ==
    (last.op \in {"MessageRead", "MessageWrite"} /\ last.returned)
        => IF last.ok
           THEN ~last.result.error
           ELSE last.result.error /\ last.result.data = <<>>

(***************************************************************************)
(* Status message editor (StatusMessageManager.tsx).                       *)
(***************************************************************************)
MaxTextLen == 1
MaxEdCalls == 2
MaxEdFeed == 1

\* const MAX_CHARACTERS = 100
MAX_CHARACTERS == 100

\* Texts an operator types or a row holds: sequences of characters.
TextChars == {" ", "a", "b"}
Texts == UNION {[1..n -> TextChars] : n \in 0..MaxTextLen}

\* A statusMessageService call of the screen: the function, the message
\* sent, and the statusMessage the calling handler closed over.
EdCall(fn, message, closure) == [fn |-> fn, message |-> message, closure |-> closure]
\* Its result as the screen destructures it.
EdReply(fn, err, data, closure) ==
    [fn |-> fn, error |-> err, data |-> data, closure |-> closure]

\* What the screen shows, for the history variable.
EdBefore ==
    [statusMessage |-> statusMessage, originalMessage |-> originalMessage,
     hasUnsavedChanges |-> hasUnsavedChanges]

InFlight(fn) ==
    \/ \E c \in BagToSet(edCalls) : c.fn = fn
    \/ \E r \in BagToSet(edReplies) : r.fn = fn
\* isSaving / isDeleting are true from the call to the `finally` of its handler.
IsSaving == InFlight("save")
IsDeleting == InFlight("reset")

\* The effect with dependencies [loadStatusMessage, hasUnsavedChanges]: when
\* hasUnsavedChanges has changed it runs again, subscribes anew and calls
\* loadStatusMessage, which sets isLoading and sends the read.
EffectRuns(changed, calls) ==
    IF changed
    THEN /\ BagCardinality(calls) + BagCardinality(edReplies') < MaxEdCalls
         /\ msgIsLoading' = TRUE
         /\ edCalls' = calls (+) SetToBag({EdCall("load", <<>>, <<>>)})
    ELSE /\ msgIsLoading' = msgIsLoading
         /\ edCalls' = calls

\* ---- another client writes or removes the message ----
OtherWrites(m) ==
    /\ Len(edFeed) < MaxEdFeed
    /\ LET existing == GetStatusMessage(TRUE) IN
       /\ (IF existing.id = NoMessage.id THEN TRUE ELSE existing.message # m)
       /\ status_message' = {MessageRow(1, m)}
       /\ edFeed' = Append(edFeed, Payload(IF existing.id = NoMessage.id THEN "INSERT" ELSE "UPDATE",
                                           MessageRow(1, m), existing))
    /\ last' = NoLast
    /\ UNCHANGED <<statusMessage, originalMessage, hasUnsavedChanges, msgIsLoading, edCalls,
                   edReplies, occVars, roomVars, foldVars, nonEditVars>>

OtherDeletes ==
    /\ Len(edFeed) < MaxEdFeed
    /\ status_message # {}
    /\ status_message' = {}
    /\ edFeed' = Append(edFeed, Payload("DELETE", NoMessage, GetStatusMessage(TRUE)))
    /\ last' = NoLast
    /\ UNCHANGED <<statusMessage, originalMessage, hasUnsavedChanges, msgIsLoading, edCalls,
                   edReplies, occVars, roomVars, foldVars, nonEditVars>>

\* ---- the store executes a call of the screen ----
\* getStatusMessage reads the latest row. updateStatusMessage updates the
\* existing row or inserts one, deleteStatusMessage removes the existing row;
\* their existence read and their write are taken in one step here
\* (SpecMessage takes them apart).
EdStore(c, ok) ==
    /\ BagIn(c, edCalls)
    /\ edCalls' = edCalls (-) SetToBag({c})
    /\ LET existing == GetStatusMessage(TRUE) IN
       IF c.fn = "load"
       THEN /\ edReplies' = edReplies
                   (+) SetToBag({EdReply("load", ~ok, GetStatusMessage(ok), c.closure)})
            /\ UNCHANGED <<status_message, edFeed>>
       ELSE IF ~ok
       THEN /\ edReplies' = edReplies (+) SetToBag({EdReply(c.fn, TRUE, NoMessage, c.closure)})
            /\ UNCHANGED <<status_message, edFeed>>
       ELSE IF c.fn = "save"
       THEN /\ Len(edFeed) < MaxEdFeed
            /\ status_message' = {MessageRow(1, c.message)}
            /\ edFeed' = Append(edFeed,
                                Payload(IF existing.id = NoMessage.id THEN "INSERT" ELSE "UPDATE",
                                        MessageRow(1, c.message), existing))
            /\ edReplies' = edReplies
                   (+) SetToBag({EdReply("save", FALSE, MessageRow(1, c.message), c.closure)})
       ELSE IF existing.id = NoMessage.id
       THEN /\ edReplies' = edReplies (+) SetToBag({EdReply("reset", FALSE, NoMessage, c.closure)})
            /\ UNCHANGED <<status_message, edFeed>>
       ELSE /\ Len(edFeed) < MaxEdFeed
            /\ status_message' = {}
            /\ edFeed' = Append(edFeed, Payload("DELETE", NoMessage, existing))
            /\ edReplies' = edReplies (+) SetToBag({EdReply("reset", FALSE, NoMessage, c.closure)})
    /\ last' = NoLast
    /\ UNCHANGED <<statusMessage, originalMessage, hasUnsavedChanges, msgIsLoading,
                   occVars, roomVars, foldVars, nonEditVars>>

\* ---- statusMessageSubscription handler ----
\* The handler closes over hasUnsavedChanges; the effect subscribes anew
\* whenever that state changes, so the handler sees its current value.
StatusFeedEvent ==
    /\ edFeed # <<>>
    /\ edFeed' = Tail(edFeed)
    /\ LET p == Head(edFeed)
           shown == IF p.eventType = "DELETE" THEN <<>> ELSE p.new.message
       IN IF ~hasUnsavedChanges
          THEN /\ statusMessage' = shown
               /\ originalMessage' = shown
          ELSE UNCHANGED <<statusMessage, originalMessage>>
    /\ last' = [op |-> "StatusFeedEvent", before |-> EdBefore]
    /\ UNCHANGED <<status_message, hasUnsavedChanges, msgIsLoading, edCalls, edReplies,
                   occVars, roomVars, foldVars, nonEditVars>>

\* ---- loadStatusMessage after its await ----
LoadApply(r) ==
    /\ BagIn(r, edReplies)
    /\ r.fn = "load"
    /\ edReplies' = edReplies (-) SetToBag({r})
    /\ IF r.error
       THEN UNCHANGED <<statusMessage, originalMessage>>
       ELSE LET shown == IF r.data.id # NoMessage.id /\ r.data.message # <<>>
                         THEN r.data.message ELSE <<>>
            IN /\ statusMessage' = shown
               /\ originalMessage' = shown
    /\ msgIsLoading' = FALSE
    /\ last' = [op |-> "LoadApply", before |-> EdBefore]
    /\ UNCHANGED <<status_message, hasUnsavedChanges, edCalls, edFeed,
                   occVars, roomVars, foldVars, nonEditVars>>

\* ---- handleInputChange; the textarea is disabled while isLoading ----
HandleInputChange(value) ==
    /\ ~msgIsLoading
    /\ value # statusMessage
    /\ IF Len(value) <= MAX_CHARACTERS
       THEN /\ statusMessage' = value
            /\ hasUnsavedChanges' = (value # originalMessage)
            /\ edReplies' = edReplies
            /\ EffectRuns(hasUnsavedChanges' # hasUnsavedChanges, edCalls)
       ELSE UNCHANGED <<statusMessage, hasUnsavedChanges, edReplies, msgIsLoading, edCalls>>
    /\ last' = [op |-> "HandleInputChange", before |-> EdBefore]
    /\ UNCHANGED <<status_message, originalMessage, edFeed,
                   occVars, roomVars, foldVars, nonEditVars>>

\* ---- handleSaveMessage up to its await ----
\* The button is disabled while isLoading or isSaving, without unsaved
\* changes, and for a blank text.
HandleSaveMessage ==
    /\ ~msgIsLoading
    /\ ~IsSaving
    /\ hasUnsavedChanges
    /\ Trim(statusMessage) # <<>>
    /\ statusMessage # originalMessage
    /\ BagCardinality(edCalls) + BagCardinality(edReplies) < MaxEdCalls
    /\ edCalls' = edCalls (+) SetToBag({EdCall("save", Trim(statusMessage), statusMessage)})
    /\ last' = [op |-> "HandleSaveMessage", before |-> EdBefore]
    /\ UNCHANGED <<status_message, statusMessage, originalMessage, hasUnsavedChanges,
                   msgIsLoading, edReplies, edFeed, occVars, roomVars, foldVars, nonEditVars>>

\* ---- handleSaveMessage after its await ----
SaveResume(r) ==
    /\ BagIn(r, edReplies)
    /\ r.fn = "save"
    /\ edReplies' = edReplies (-) SetToBag({r})
    /\ IF r.error
       THEN UNCHANGED <<originalMessage, hasUnsavedChanges, msgIsLoading, edCalls>>
       ELSE /\ originalMessage' = r.closure
            /\ hasUnsavedChanges' = FALSE
            /\ EffectRuns(hasUnsavedChanges, edCalls)
    /\ last' = [op |-> "SaveResume", before |-> EdBefore]
    /\ UNCHANGED <<status_message, statusMessage, edFeed,
                   occVars, roomVars, foldVars, nonEditVars>>

\* ---- handleResetMessage up to its await ----
HandleResetMessage ==
    /\ ~msgIsLoading
    /\ ~IsDeleting
    /\ ~(originalMessage = <<>> /\ statusMessage = <<>>)
    /\ BagCardinality(edCalls) + BagCardinality(edReplies) < MaxEdCalls
    /\ edCalls' = edCalls (+) SetToBag({EdCall("reset", <<>>, <<>>)})
    /\ last' = [op |-> "HandleResetMessage", before |-> EdBefore]
    /\ UNCHANGED <<status_message, statusMessage, originalMessage, hasUnsavedChanges,
                   msgIsLoading, edReplies, edFeed, occVars, roomVars, foldVars, nonEditVars>>

\* ---- handleResetMessage after its await ----
ResetResume(r) ==
    /\ BagIn(r, edReplies)
    /\ r.fn = "reset"
    /\ edReplies' = edReplies (-) SetToBag({r})
    /\ IF r.error
       THEN UNCHANGED <<statusMessage, originalMessage, hasUnsavedChanges, msgIsLoading,
                        edCalls>>
       ELSE /\ statusMessage' = <<>>
            /\ originalMessage' = <<>>
            /\ hasUnsavedChanges' = FALSE
            /\ EffectRuns(hasUnsavedChanges, edCalls)
    /\ last' = [op |-> "ResetResume", before |-> EdBefore]
    /\ UNCHANGED <<status_message, edFeed, occVars, roomVars, foldVars, nonEditVars>>

\* ---- handleCancelEdit; the button is rendered with unsaved changes ----
HandleCancelEdit ==
    /\ hasUnsavedChanges
    /\ ~msgIsLoading
    /\ statusMessage' = originalMessage
    /\ hasUnsavedChanges' = FALSE
    /\ edReplies' = edReplies
    /\ EffectRuns(TRUE, edCalls)
    /\ last' = [op |-> "HandleCancelEdit", before |-> EdBefore]
    /\ UNCHANGED <<status_message, originalMessage, edFeed,
                   occVars, roomVars, foldVars, nonEditVars>>

\* The screen has just been mounted: the effect has sent the first read.
InitEditor ==
    /\ InitOcc
    /\ InitRooms
    /\ current_users = [r \in RoomIds |-> 0]
    /\ withdrawals = <<>>
    /\ promoCodes = <<>>
    /\ roomCalls = EmptyBag
    /\ roomReplies = EmptyBag
    /\ PayoutUnmounted
    /\ NoCardRendered
    /\ status_message \in {{}} \cup {{MessageRow(1, m)} : m \in Texts \ {<<>>, <<" ">>}}
    /\ msgTasks = EmptyBag
    /\ msgCalls = 0
    /\ statusMessage = <<>>
    /\ originalMessage = <<>>
    /\ hasUnsavedChanges = FALSE
    /\ msgIsLoading = TRUE
    /\ edCalls = SetToBag({EdCall("load", <<>>, <<>>)})
    /\ edReplies = EmptyBag
    /\ edFeed = <<>>
    /\ editingRoom = NoRoom
    /\ editFormData = NoRow
    /\ editIsSubmitting = FALSE
    /\ editSubmitLock = FALSE
    /\ formData = NoRow
    /\ addIsSubmitting = FALSE
    /\ addSubmitLock = FALSE
    /\ last = NoLast

NextEditor ==
    \/ \E m \in Texts \ {<<>>, <<" ">>} : OtherWrites(m)
    \/ OtherDeletes
    \/ \E c \in BagToSet(edCalls), ok \in BOOLEAN : EdStore(c, ok)
    \/ StatusFeedEvent
    \/ \E r \in BagToSet(edReplies) : LoadApply(r)
    \/ \E value \in Texts : HandleInputChange(value)
    \/ HandleSaveMessage
    \/ \E r \in BagToSet(edReplies) : SaveResume(r)
    \/ HandleResetMessage
    \/ \E r \in BagToSet(edReplies) : ResetResume(r)
    \/ HandleCancelEdit

SpecEditor == InitEditor /\ [][NextEditor]_vars

\* C23 (as claimed): while hasUnsavedChanges is true, neither a feed event
\* nor the completion of a re-fetch changes statusMessage.
C23_NoRemoteOverwrite ==
    (last.op \in {"StatusFeedEvent", "LoadApply"} /\ last.before.hasUnsavedChanges)
        => statusMessage = last.before.statusMessage

(***************************************************************************)
(* Inline edit of a room (RoomList.jsx as mounted by AdminPanel.tsx).      *)
(***************************************************************************)
\* JavaScript undefined where a room id / a text is expected.
UndefinedId == 0
UndefinedText == <<"undefined">>

\* room.id, room.name, ... read from the first argument of the callback.
\* RoomList passes the room's id there (a string), and a property read on a
\* string that has no such property gives undefined.
IdOfPrimitive(v) == UndefinedId
NameOfPrimitive(v) == UndefinedText

\* onEditRoom={(room) => handleEditRoom(room.id, {name: room.name, ...})}:
\* the arguments handleEditRoom gets when RoomList calls
\* onEditRoom(roomId, {name: editFormData.name, ...}).
OnEditRoom(roomId, updatedData) ==
    [roomId |-> IdOfPrimitive(roomId), updatedData |-> [name |-> NameOfPrimitive(roomId)]]

\* validateEditForm, for the name: !editFormData.name?.trim()
ValidateEditForm(form) == Trim(form.name) # <<>>

\* ---- handleEditClick(room): the Edit button of a listed room ----
HandleEditClick(i) ==
    /\ i \in DOMAIN rooms
    /\ editingRoom # rooms[i].id
    /\ editingRoom' = rooms[i].id
    /\ editFormData' = [name |-> rooms[i].name]
    /\ last' = NoLast
    /\ UNCHANGED <<editIsSubmitting, editSubmitLock, writeVars, occVars, roomVars, foldVars,
                   nonInlineVars>>

\* ---- handleEditChange: the operator types into the name field ----
HandleEditChange(value) ==
    /\ editingRoom \in Ids(rooms)
    /\ editFormData.name # value
    /\ editFormData' = [editFormData EXCEPT !.name = value]
    /\ last' = NoLast
    /\ UNCHANGED <<editingRoom, editIsSubmitting, editSubmitLock, writeVars, occVars,
                   roomVars, foldVars, nonInlineVars>>

\* ---- handleCancelEdit of RoomList; the button is disabled while submitting ----
CancelInlineEdit ==
    /\ editingRoom \in Ids(rooms)
    /\ ~editIsSubmitting
    /\ editingRoom' = NoRoom
    /\ editFormData' = NoRow
    /\ last' = NoLast
    /\ UNCHANGED <<editIsSubmitting, editSubmitLock, writeVars, occVars, roomVars, foldVars,
                   nonInlineVars>>

\* ---- handleSaveEdit(roomId) up to its await ----
\* The Save button is rendered in the row being edited and is disabled while
\* submitting. The call goes through AdminPanel's onEditRoom to
\* handleEditRoom, which awaits roomService.updateRoom(roomId, updatedData).
HandleSaveEdit(roomId) ==
    /\ roomId \in Ids(rooms)
    /\ editingRoom = roomId
    /\ ~editIsSubmitting
    /\ IF editSubmitLock
       THEN UNCHANGED <<editSubmitLock, editIsSubmitting, roomCalls>>
       ELSE IF ~ValidateEditForm(editFormData)
       THEN UNCHANGED <<editSubmitLock, editIsSubmitting, roomCalls>>
       ELSE LET args == OnEditRoom(roomId, [name |-> editFormData.name]) IN
            /\ BagCardinality(roomCalls) + BagCardinality(roomReplies) < MaxRoomCalls
            /\ editSubmitLock' = TRUE
            /\ editIsSubmitting' = TRUE
            /\ roomCalls' = roomCalls
                   (+) SetToBag({RoomCall("edit", args.roomId, args.updatedData.name,
                                          "update")})
    /\ last' = [op |-> "HandleSaveEdit", roomId |-> roomId, form |-> editFormData,
                submitted |-> ~editSubmitLock /\ ValidateEditForm(editFormData)]
    /\ UNCHANGED <<editingRoom, editFormData, roomReplies, occVars, roomVars, foldVars,
                   nonInlineVars>>

\* ---- handleEditRoom after its await, then handleSaveEdit after its own ----
\* handleEditRoom catches a failure, so handleSaveEdit goes on either way.
SaveEditResume(r) ==
    /\ BagIn(r, roomReplies)
    /\ r.kind = "edit"
    /\ editIsSubmitting
    /\ roomReplies' = roomReplies (-) SetToBag({r})
    /\ rooms' = IF ~r.error /\ Len(r.data) > 0
                THEN EditResult(rooms, r.rid, r.data)
                ELSE rooms
    /\ editingRoom' = NoRoom
    /\ editFormData' = NoRow
    /\ editIsSubmitting' = FALSE
    /\ last' = [op |-> "SaveEditResume", reply |-> r, before |-> rooms]
    /\ UNCHANGED <<editSubmitLock, roomCalls, store, created, roomFeed, online, fetchSent,
                   fetchReplies, isLoading, error, roomOps, occVars, foldVars, nonInlineVars>>

\* ---- setTimeout(() => setSubmitLock(false), 500) of handleSaveEdit ----
EditLockRelease ==
    /\ editSubmitLock
    /\ ~editIsSubmitting
    /\ editSubmitLock' = FALSE
    /\ last' = NoLast
    /\ UNCHANGED <<editingRoom, editFormData, editIsSubmitting, writeVars, occVars, roomVars,
                   foldVars, nonInlineVars>>

\* The listed rooms of today, none being edited.
InitInline ==
    /\ InitOcc
    /\ current_users = [r \in RoomIds |-> 0]
    /\ \E nm \in [ListedRooms -> Texts \ {<<>>, <<" ">>}] :
          /\ store = [r \in RoomIds |-> IF r \in ListedRooms
                                        THEN RoomRow(r, TodayStr, nm[r]) ELSE NoRow]
          /\ rooms = TodayRooms([r \in RoomIds |-> IF r \in ListedRooms
                                                   THEN RoomRow(r, TodayStr, nm[r])
                                                   ELSE NoRow],
                                [i \in 1..Cardinality(ListedRooms) |-> i])
    /\ created = [i \in 1..Cardinality(ListedRooms) |-> i]
    /\ roomFeed = <<>>
    /\ online = TRUE
    /\ fetchSent = 0
    /\ fetchReplies = EmptyBag
    /\ isLoading = FALSE
    /\ error = FALSE
    /\ roomOps = 0
    /\ withdrawals = <<>>
    /\ promoCodes = <<>>
    /\ roomCalls = EmptyBag
    /\ roomReplies = EmptyBag
    /\ PayoutUnmounted
    /\ NoCardRendered
    /\ NoMessageCall
    /\ UiIdle
    /\ last = NoLast

NextInline ==
    \/ \E i \in 1..Cardinality(ListedRooms) : HandleEditClick(i)
    \/ \E value \in Texts : HandleEditChange(value)
    \/ CancelInlineEdit
    \/ \E roomId \in RoomIds : HandleSaveEdit(roomId)
    \/ \E c \in BagToSet(roomCalls), ok \in BOOLEAN : EditRoomStore(c, ok)
    \/ \E r \in BagToSet(roomReplies) : SaveEditResume(r)
    \/ EditLockRelease

SpecInline == InitInline /\ [][NextInline]_vars

\* C24 (as claimed): when the Save of an inline edit passes validation, the
\* updateRoom call that is issued carries the id of the room being edited and
\* the name the operator entered in the edit form.
C24_SaveCallsUpdateRoom ==
    (last.op = "HandleSaveEdit" /\ last.submitted)
        => BagIn(RoomCall("edit", last.roomId, last.form.name, "update"), roomCalls)

(***************************************************************************)
(* Add-room form (AddRoomForm.jsx as mounted by AdminPanel.tsx).           *)
(***************************************************************************)
\* formData, restricted to the name and the date option; useState's value.
FormData(name, option) == [name |-> name, date_option |-> option]
FormDefaults == FormData(<<>>, "today")
DateOptions == {"today", "tomorrow"}

\* getSessionDate(dateOption): today's UTC date, or the day after it.
GetSessionDate(dateOption) == IF dateOption = "tomorrow" THEN TodayStr + 1 ELSE TodayStr

\* validateForm, for the name: !formData.name.trim()
ValidateForm(form) == Trim(form.name) # <<>>

\* A roomService.addRoom call the store has yet to execute.
AddCall(name, date) ==
    [kind |-> "add", rid |-> NoRoom, name |-> name, pc |-> "insert", session_date |-> date]

\* handleAddRoom of AdminPanel: TRUE when the promise it returns rejects. Its
\* catch logs and notifies and does not re-throw.
HandleAddRoomRejects(r) == FALSE

\* ---- handleChange; the fields are disabled while submitting or loading ----
HandleChange(name, option) ==
    /\ ~addIsSubmitting
    /\ ~isLoading
    /\ FormData(name, option) # formData
    /\ formData' = FormData(name, option)
    /\ last' = NoLast
    /\ UNCHANGED <<addIsSubmitting, addSubmitLock, writeVars, occVars, roomVars, foldVars,
                   nonFormVars>>

\* ---- handleSubmit up to its await ----
\* The submit button is disabled while submitting, loading or locked.
HandleSubmit ==
    /\ ~addIsSubmitting
    /\ ~isLoading
    /\ ~addSubmitLock
    /\ IF ~ValidateForm(formData)
       THEN UNCHANGED <<addSubmitLock, addIsSubmitting, roomCalls>>
       ELSE /\ BagCardinality(roomCalls) + BagCardinality(roomReplies) < MaxRoomCalls
            /\ addSubmitLock' = TRUE
            /\ addIsSubmitting' = TRUE
            /\ roomCalls' = roomCalls
                   (+) SetToBag({AddCall(formData.name,
                                         GetSessionDate(formData.date_option))})
    /\ last' = NoLast
    /\ UNCHANGED <<formData, roomReplies, occVars, roomVars, foldVars, nonFormVars>>

\* ---- the store executes .insert([{...}]).select() ----
AddRoomStore(c, ok) ==
    /\ BagIn(c, roomCalls)
    /\ c.pc = "insert"
    /\ roomCalls' = roomCalls (-) SetToBag({c})
    /\ IF ok
       THEN /\ RoomIds \ SeqToSet(created) # {}
            /\ roomOps < MaxRoomOps
            /\ Len(roomFeed) < MaxRoomFeed
            /\ LET rid == CHOOSE r \in RoomIds \ SeqToSet(created) :
                              \A q \in RoomIds \ SeqToSet(created) : r <= q
                   row == RoomRow(rid, c.session_date, c.name)
               IN /\ store' = [store EXCEPT ![rid] = row]
                  /\ created' = Append(created, rid)
                  /\ roomFeed' = Append(roomFeed, Payload("INSERT", row, NoRow))
                  /\ roomReplies' = roomReplies
                         (+) SetToBag({RoomReply("add", rid, FALSE, <<row>>, TRUE)})
            /\ roomOps' = roomOps + 1
       ELSE /\ UNCHANGED <<store, created, roomFeed, roomOps>>
            /\ roomReplies' = roomReplies
                   (+) SetToBag({RoomReply("add", NoRoom, TRUE, <<>>, TRUE)})
    /\ last' = NoLast
    /\ UNCHANGED <<online, fetchSent, fetchReplies, rooms, isLoading, error,
                   occVars, foldVars, nonWriteVars>>

\* ---- handleAddRoom after its await, then handleSubmit after its own ----
\* When onAddRoom resolves the form is reset; when it rejects handleSubmit's
\* catch leaves formData alone. The `finally` clears isSubmitting.
AddResume(r) ==
    /\ BagIn(r, roomReplies)
    /\ r.kind = "add"
    /\ roomReplies' = roomReplies (-) SetToBag({r})
    /\ formData' = IF HandleAddRoomRejects(r) THEN formData ELSE FormDefaults
    /\ addIsSubmitting' = FALSE
    /\ last' = [op |-> "AddResume", reply |-> r, before |-> formData]
    /\ UNCHANGED <<addSubmitLock, roomCalls, occVars, roomVars, foldVars, nonFormVars>>

\* ---- setTimeout(() => setSubmitLock(false), 500) of handleSubmit ----
AddLockRelease ==
    /\ addSubmitLock
    /\ ~addIsSubmitting
    /\ addSubmitLock' = FALSE
    /\ last' = NoLast
    /\ UNCHANGED <<formData, addIsSubmitting, writeVars, occVars, roomVars, foldVars,
                   nonFormVars>>

\* The form as first rendered, the rooms table empty and loaded.
InitAdd ==
    /\ InitOcc
    /\ current_users = [r \in RoomIds |-> 0]
    /\ store = [r \in RoomIds |-> NoRow]
    /\ created = <<>>
    /\ roomFeed = <<>>
    /\ online = TRUE
    /\ fetchSent = 0
    /\ fetchReplies = EmptyBag
    /\ rooms = <<>>
    /\ isLoading = FALSE
    /\ error = FALSE
    /\ roomOps = 0
    /\ withdrawals = <<>>
    /\ promoCodes = <<>>
    /\ roomCalls = EmptyBag
    /\ roomReplies = EmptyBag
    /\ PayoutUnmounted
    /\ NoCardRendered
    /\ NoMessageCall
    /\ statusMessage = <<>>
    /\ originalMessage = <<>>
    /\ hasUnsavedChanges = FALSE
    /\ msgIsLoading = FALSE
    /\ edCalls = EmptyBag
    /\ edReplies = EmptyBag
    /\ edFeed = <<>>
    /\ editingRoom = NoRoom
    /\ editFormData = NoRow
    /\ editIsSubmitting = FALSE
    /\ editSubmitLock = FALSE
    /\ formData = FormDefaults
    /\ addIsSubmitting = FALSE
    /\ addSubmitLock = FALSE
    /\ last = NoLast

NextAdd ==
    \/ \E name \in Texts, option \in DateOptions : HandleChange(name, option)
    \/ HandleSubmit
    \/ \E c \in BagToSet(roomCalls), ok \in BOOLEAN : AddRoomStore(c, ok)
    \/ \E r \in BagToSet(roomReplies) : AddResume(r)
    \/ AddLockRelease
    \/ RoomEvent

SpecAdd == InitAdd /\ [][NextAdd]_vars

\* C25 (as claimed): when the remote add-room call has failed, the form
\* keeps the values the operator entered.
C25_FormKeptOnFailure ==
    (last.op = "AddResume" /\ last.reply.error) => formData = last.before

(***************************************************************************)
(* Occupancy updater, one panel, one event at a time, no failures.         *)
(***************************************************************************)
\* A record counts for a room when it is in the room with credits left.
Occupies(row, r) ==
    IF row = NoRow THEN FALSE ELSE row.room_id = r /\ row.rewards_left > 0
ActiveCount(r) == Cardinality({s \in SessionIds : Occupies(user_sessions[s], r)})

\* A record changes without changing its room.
SessUpdateInRoom(s, w) ==
    /\ user_sessions[s] # NoRow
    /\ SessUpdate(s, user_sessions[s].room_id, w)

\* The handler takes an event when the one before it has finished.
SessionEventInTurn ==
    /\ tasks = EmptyBag
    /\ SessionEvent

\* Any participation table, each counter equal to the number of records
\* that occupy its room.
InitSeq ==
    /\ user_sessions \in [SessionIds ->
           {NoRow} \cup {SessionRow(s, r, w) : s \in SessionIds,
                                               r \in RoomIds \cup {NoRoom}, w \in Rewards}]
    /\ \A s \in SessionIds : user_sessions[s] = NoRow \/ user_sessions[s].id = s
    /\ current_users = [r \in RoomIds |-> ActiveCount(r)]
    /\ sessFeed = <<>>
    /\ tasks = EmptyBag
    /\ sessOps = 0
    /\ InitRooms
    /\ withdrawals = <<>>
    /\ promoCodes = <<>>
    /\ roomCalls = EmptyBag
    /\ roomReplies = EmptyBag
    /\ PayoutUnmounted
    /\ NoCardRendered
    /\ NoMessageCall
    /\ UiIdle
    /\ last = NoLast

NextSeq ==
    \/ \E s \in SessionIds, r \in RoomIds \cup {NoRoom}, w \in Rewards : SessInsert(s, r, w)
    \/ \E s \in SessionIds, w \in Rewards : SessUpdateInRoom(s, w)
    \/ \E s \in SessionIds : SessDelete(s)
    \/ SessionEventInTurn
    \/ \E t \in BagToSet(tasks) : UpdateRead(t, TRUE)
    \/ \E t \in BagToSet(tasks) : UpdateWrite(t, TRUE)

SpecSeq == InitSeq /\ [][NextSeq]_vars

\* What an event not yet handled will have to add to the counter of room r.
RECURSIVE Pending(_, _)
Pending(feed, r) ==
    IF feed = <<>> THEN 0
    ELSE (IF Occupies(Head(feed).new, r) THEN 1 ELSE 0)
         - (IF Occupies(Head(feed).old, r) THEN 1 ELSE 0)
         + Pending(Tail(feed), r)

\* C26: with one panel, each read-modify-write finished before the next
\* event is handled, no failures and no record changing its room, a counter
\* that starts equal to the number of records with credits left in its room
\* equals, after every handled event, that number as of the handled events:
\* the number in the table less what the events still in the feed account for.
C26_CounterTracksOccupancy ==
    tasks = EmptyBag =>
        \A r \in RoomIds : current_users[r] + Pending(sessFeed, r) = ActiveCount(r)

\* C26 witness: a record's credits went from above zero to zero, the event
\* was handled and its -1 written, and the counter is again the number of
\* records with credits left.
C26_SpentRecordCounted ==
    /\ last.op = "UpdateWrite"
    /\ last.call.change = -1
    /\ last.before = 1
    /\ tasks = EmptyBag
    /\ sessFeed = <<>>
    /\ current_users[last.call.roomId] = 0
    /\ ActiveCount(last.call.roomId) = 0
    /\ \E s \in SessionIds : IF user_sessions[s] = NoRow THEN FALSE
                             ELSE /\ user_sessions[s].room_id = last.call.roomId
                                  /\ user_sessions[s].rewards_left <= 0

(***************************************************************************)
(* Occupancy updater with several panels subscribed.                       *)
(***************************************************************************)
NumPanels == 2

\* Every mounted AdminPanel has its own sessionSubscription: the channel
\* delivers each change event once to each of them.
ToEveryPanel(p) == [k \in 1..NumPanels |-> p]

PanelsInsert(s, r, w) ==
    /\ user_sessions[s] = NoRow
    /\ sessOps < MaxSessOps
    /\ sessFeed = <<>>
    /\ user_sessions' = [user_sessions EXCEPT ![s] = SessionRow(s, r, w)]
    /\ sessFeed' = ToEveryPanel(Payload("INSERT", SessionRow(s, r, w), NoRow))
    /\ sessOps' = sessOps + 1
    /\ last' = NoLast
    /\ UNCHANGED <<current_users, tasks, roomVars, foldVars, extVars>>

PanelsUpdate(s, r, w) ==
    /\ user_sessions[s] # NoRow
    /\ sessOps < MaxSessOps
    /\ sessFeed = <<>>
    /\ user_sessions' = [user_sessions EXCEPT ![s] = SessionRow(s, r, w)]
    /\ sessFeed' = ToEveryPanel(Payload("UPDATE", SessionRow(s, r, w), user_sessions[s]))
    /\ sessOps' = sessOps + 1
    /\ last' = NoLast
    /\ UNCHANGED <<current_users, tasks, roomVars, foldVars, extVars>>

PanelsDelete(s) ==
    /\ user_sessions[s] # NoRow
    /\ sessOps < MaxSessOps
    /\ sessFeed = <<>>
    /\ user_sessions' = [user_sessions EXCEPT ![s] = NoRow]
    /\ sessFeed' = ToEveryPanel(Payload("DELETE", NoRow, user_sessions[s]))
    /\ sessOps' = sessOps + 1
    /\ last' = NoLast
    /\ UNCHANGED <<current_users, tasks, roomVars, foldVars, extVars>>

\* The panels' handlers run in different browsers: a handler starts whether
\* or not another one is suspended. Reads and writes succeed.
NextPanels ==
    \/ \E s \in SessionIds, r \in RoomIds \cup {NoRoom}, w \in Rewards : PanelsInsert(s, r, w)
    \/ \E s \in SessionIds, r \in RoomIds \cup {NoRoom}, w \in Rewards : PanelsUpdate(s, r, w)
    \/ \E s \in SessionIds : PanelsDelete(s)
    \/ SessionEvent
    \/ \E t \in BagToSet(tasks) : UpdateRead(t, TRUE)
    \/ \E t \in BagToSet(tasks) : UpdateWrite(t, TRUE)

SpecPanels == Init /\ [][NextPanels]_vars

\* C27 (as claimed): once the first participation event has been handled by
\* every subscribed panel, the stored occupancy of its room has changed by
\* exactly one step if the event warranted a delta (the inserted record has
\* credits left), and not at all otherwise.
C27_OneStepPerEvent ==
    (sessOps = 1 /\ sessFeed = <<>> /\ tasks = EmptyBag)
        => \A r \in RoomIds : current_users[r] = ActiveCount(r)

(***************************************************************************)
(* Rooms list under fetches, feed events and the operator's own writes.    *)
(***************************************************************************)
\* Changes of the rooms table by any client, their events, the periodic
\* fetch, and this panel's edits and deletes. Lost events and failed fetches
\* leave the list as it is and are left to SpecRooms. Other clients write
\* the name "a" and any date, this panel's edits write the name "b".
\* The roomSubscription handler on the next event of the feed, as RoomEvent,
\* with the handled UPDATE payloads and the list before them kept in `last`.
RoomEventInList ==
    /\ roomFeed # <<>>
    /\ roomFeed' = Tail(roomFeed)
    /\ rooms' = RoomFold(rooms, Head(roomFeed))
    /\ last' = IF Head(roomFeed).eventType = "UPDATE"
               THEN [op |-> "RoomEvent", payload |-> Head(roomFeed), before |-> rooms]
               ELSE NoLast
    /\ UNCHANGED <<store, created, online, fetchSent, fetchReplies, isLoading, error,
                   roomOps, occVars, foldVars, extVars>>

NextList ==
    \/ \E rid \in RoomIds, d \in Dates : StoreInsert(rid, d, "a")
    \/ \E rid \in RoomIds, d \in Dates : StoreUpdate(rid, d, "a")
    \/ RoomEventInList
    \/ AutoRefresh
    \/ FetchAnswer
    \/ \E r \in BagToSet(fetchReplies) : FetchApply(r)
    \/ \E rid \in RoomIds : EditRoomStart(rid, "b")
    \/ \E c \in BagToSet(roomCalls) : EditRoomStore(c, TRUE)
    \/ \E r \in BagToSet(roomReplies) : EditApply(r)
    \/ \E rid \in RoomIds : DeleteRoomStart(rid)
    \/ \E c \in BagToSet(roomCalls) : DeleteSessions(c, TRUE)
    \/ \E c \in BagToSet(roomCalls) : DeleteRow(c, TRUE)
    \/ \E r \in BagToSet(roomReplies) : DeleteApply(r)

SpecList == Init /\ [][NextList]_vars

\* C28: the local rooms list never holds two records with the same id,
\* whatever the order of fetch completions, insert, update and delete feed
\* events, and the direct local updates of edit and delete. (A fetch result
\* is the store's rows, whose ids are distinct.)
C28_DistinctIds ==
    \A i, j \in DOMAIN rooms : i # j => rooms[i].id # rooms[j].id

\* C28 witness: a fetch has put a room into the list while the insert event
\* of that same room is still to be delivered.
C28_FetchedBeforeInsertEvent ==
    /\ last.op = "FetchApply"
    /\ \E i \in DOMAIN roomFeed :
          /\ roomFeed[i].eventType = "INSERT"
          /\ roomFeed[i].new.id \in Ids(rooms)


\* C29: handling a session update event leaves the ids of the list, and
\* their order, as they were, also when the record is absent and its new date
\* is today; an id enters the list only when an insert event is handled or a
\* fetch response is applied.
IdSeq(list) == [i \in DOMAIN list |-> list[i].id]

UpdateHandled ==
    /\ roomFeed # <<>>
    /\ Head(roomFeed).eventType = "UPDATE"
    /\ roomFeed' = Tail(roomFeed)

InsertHandled ==
    /\ roomFeed # <<>>
    /\ Head(roomFeed).eventType = "INSERT"
    /\ roomFeed' = Tail(roomFeed)

FetchApplied ==
    /\ fetchReplies' \sqsubseteq fetchReplies
    /\ fetchReplies' # fetchReplies

C29_UpdateKeepsIds ==
    [][/\ UpdateHandled => IdSeq(rooms') = IdSeq(rooms)
       /\ (Ids(rooms') \ Ids(rooms) # {}) => (InsertHandled \/ FetchApplied)]_vars

\* C29 witness: the update event of a session rescheduled to today, absent
\* from the list, was handled; the store schedules it today and the list is
\* as before, without it.
C29_RescheduledStaysAbsent ==
    /\ last.op = "RoomEvent"
    /\ last.payload.eventType = "UPDATE"
    /\ last.payload.new.session_date = TodayStr
    /\ last.payload.new.id \notin Ids(last.before)
    /\ store[last.payload.new.id] = last.payload.new
    /\ last.payload.old.session_date # TodayStr
    /\ rooms = last.before


\* C30: when deleteRoom has returned from its delete on the rooms table,
\* either the room row and all participation records of the room are gone,
\* or the room row and every participation record the room had when the
\* panel was loaded are still there.
RecordsAtLoad(rid) ==
    {s \in SessionIds : SessionRow(s, 1, 5).room_id = rid}

C30_AllOrNothing ==
    last.op = "DeleteRow" =>
        \/ /\ store[last.call.rid] = NoRow
           /\ SessionsOf(last.call.rid) = {}
        \/ /\ store[last.call.rid] # NoRow
           /\ SessionsOf(last.call.rid) = RecordsAtLoad(last.call.rid)

====
